---------------------------- MODULE Spec2Model ----------------------------
(***************************************************************************)
(* State-machine model of the voice session of billy-b-assistant:          *)
(*   src/core/audio.py    playback queue, playback worker, stop_playback,  *)
(*                        wake-up clip thread                              *)
(*   src/core/button.py   on_button (interrupt branch), run_session        *)
(*   src/core/session.py  BillySession: start, run_stream, handle_message, *)
(*                        the private handlers, stop_session,              *)
(*                        post_response_handling, mic_callback             *)
(*   src/core/say.py      say() session construction                       *)
(*                                                                         *)
(* Threads of control: the asyncio event loop of the session thread (the   *)
(* main task running start(), plus the stop_session coroutine the button   *)
(* thread schedules on it), the playback worker thread, the button thread, *)
(* the wake-up clip thread, the PortAudio callback thread delivering mic    *)
(* frames, and the remote service.  A coroutine runs without interruption  *)
(* by other coroutines of the same loop between two awaits; the other      *)
(* threads interleave with it at every access to shared state.             *)
(***************************************************************************)
EXTENDS Integers, Sequences, FiniteSets, TLC

\* ---------------------------------------------------------------- bounds
MaxArgDeltas == 1   \* argument-delta events of one tool call
MaxCalls == 2       \* tool calls the remote service makes in a tool scenario
MaxChunks == 3      \* audio-delta events the remote service sends
MaxClock == 16      \* the latest reading of the clock, in half seconds
MaxDeltas == 1      \* transcript-delta events the remote service sends
MaxFrames == 1      \* mic frames the PortAudio thread delivers
MaxMicFails == 1    \* mic open attempts the input device refuses
MaxMicOps == 4      \* calls made on a MicManager object
MaxRefusals == 6    \* the same, in a scenario of the mic retry loop
MaxSessionThreads == 4 \* session threads the button starts
MaxStreamDeltas == 3 \* transcript-delta events in a scenario of two streams
MaxStreamTurns == 2 \* responses in a scenario of several turns
MaxTurns == 1       \* responses the remote service generates

\* ------------------------------------------------------------- constants
NoneVal == "None"
WakeClip == 0       \* the chunk of the wake-up clip
ErrClip == -1       \* the chunk of the fallback error clip
SongChunk == -2     \* a chunk of a song
MicOpenRetries == 3
MIC_TIMEOUT_SECONDS == 5
timeout_offset == 2
TicksPerSecond == 2 \* the clock counts half seconds

\* Characters the transcript is made of; the non-ASCII question marks of
\* _wants_follow_up_heuristic are named by their code points.
QuestionChars == {"?", "u00BF", "uFF1F", "u061F", "u203D"}
Whitespace == {" ", "\n"}
Hello == <<"H", "e", "l", "l", "o", "!">>
Joke == <<"W", "a", "n", "t", " ", "t", "o", " ", "h", "e", "a", "r", " ",
          "a", " ", "j", "o", "k", "e", "?">>
Que == <<"u00BF", "Q", "u", "e", " ">>
DeltaTexts == {Hello, Joke, Que}

VARIABLES
    \* --- session configuration (BillySession.__init__, say, button.py)
    source,                 \* "button" | "say"
    autofollowup,           \* "auto" | "never" | "always"
    run_mode,               \* "normal" | "dory"
    kickoff_text,           \* NoneVal | "text"
    kickoff_to_interactive,
    \* --- what the surroundings of this session can do (fixed per behaviour)
    env,
    \* --- BillySession fields
    ws,                     \* NoneVal | "obj": the connection handle
    conn,                   \* "none" | "open" | "closed_ok" | "closed_err"
    ws_lock,                \* "free" | "main" | "stop"
    session_active,
    allow_mic_input,
    mic_running,
    full_response_text,
    audio_buffer,           \* number of chunks accumulated for the history file
    follow_up_expected,
    saw_follow_up_call,     \* "unset" until the first response.created
    turn_had_speech,
    first_text,
    kickoff_first_turn_done,
    last_activity,          \* who wrote the timestamp last
    user_spoke_after_assistant,
    tool_args_buffer,       \* tool name -> argument text received in deltas
    \* --- audio.py module state
    playback_queue,
    unfinished_tasks,
    playback_done_event,
    worker_alive,
    \* --- button.py module state
    interrupt_event,
    is_active,
    \* --- positions of the threads and coroutines
    pcE, wants_follow_up, attempt, ssRet,   \* main task of the loop
    pcT,                    \* stop_session scheduled by the button thread
    pcW, item,              \* playback worker; item holds the chunk it took
    pcB,                    \* button thread
    pcU, already_pending,   \* wake-up clip thread
    \* --- environment
    srv, turns, nAudio, nText, toolSent, clipExists, micFails, frames,
    srvCalls,               \* the tool calls of the remote service, by call id
    \* --- observations
    sink,                   \* chunks written to the output device
    enqueued,               \* every chunk ever put on the queue
    joinSnap,               \* chunks enqueued before the pending join call
    joinReturned,           \* the last join has returned
    flushSnap,              \* chunks enqueued before stop_playback began
    flushBegun,             \* stop_playback has made its first pass
    saves,                  \* calls of rotate_and_save_response_audio
    sent,                   \* frames handed to send_mic_audio
    dropped,                \* mic frames discarded by the first check
    doneProcessed,          \* a response.done has been handled completely
    intrObserved,           \* _on_audio_out saw the interrupt
    intrSpeaking,           \* the button was pressed during a turn
    turnOpen,               \* response.created handled, response.done not yet
    trace,                  \* first occurrences of the teardown steps
    dispatched,             \* the argument texts handed to tool handlers
    handlerRaised,          \* an exception has left handle_message
    \* --- the mic retry task
    mic,                    \* self.mic: the MicManager objects are numbered
    pcR,                    \* position of _retry_mic_loop
    delay_i,                \* index of the loop's current delay
    micLog,                 \* the attempts the retry loop has made
    \* --- the transcript of the turn
    active_transcript_stream,
    tdeltas,                \* the transcript deltas handled since response.created
    textAtCreated,          \* full_response_text when response.created was handled
    \* --- mic audio on its way to the connection
    pendingAppends,         \* ws.send coroutines scheduled by send_mic_audio
    appendLog,              \* the state of ws_lock at each of their sends
    \* --- the idle watchdog
    pcM,                    \* position of mic_timeout_checker
    \* --- the explicit stop request
    stop_requested,         \* request_stop has run
    \* --- a MicManager object on its own
    mic_stream,             \* MicManager.stream: None, or a stream object
    micOps,                 \* the calls made on the object, with their results
    \* --- threads that make sure the playback worker runs
    playback_thread,        \* audio._playback_thread: None, or a Thread object
    alive_workers,          \* the Thread objects that have been started
    pcS,                    \* position of each caller in ensure_playback_worker_started
    \* --- messages of the session to the service
    outbox,                 \* response.create and the tool handlers' messages, as sent
    \* --- one iteration of the idle watchdog on its own
    idle_check,             \* the values it read and what it did
    \* --- the session threads the button starts
    session_start_lock,     \* button._session_start_lock is held
    session_threads,        \* the threads started so far; session_thread is the last
    pcP                     \* position of on_button in a press that may start a session

cfgVars == <<source, autofollowup, run_mode, kickoff_text, kickoff_to_interactive,
             env>>
sessVars == <<ws, conn, ws_lock, session_active, allow_mic_input, mic_running,
              full_response_text, audio_buffer, follow_up_expected,
              saw_follow_up_call, turn_had_speech, first_text,
              kickoff_first_turn_done,
              last_activity, user_spoke_after_assistant>>
queueVars == <<playback_queue, unfinished_tasks>>
mainVars == <<pcE, wants_follow_up, attempt, ssRet>>
workerVars == <<pcW, item, sink, worker_alive>>
buttonVars == <<pcB, interrupt_event, is_active, flushSnap, flushBegun, intrSpeaking>>
wakeVars == <<pcU, already_pending>>
micVars == <<frames, sent, dropped>>
envVars == <<srv, turns, nAudio, nText, toolSent, clipExists, micFails>>
obsVars == <<enqueued, joinSnap, joinReturned, saves, doneProcessed, intrObserved,
             turnOpen, trace>>
toolVars == <<tool_args_buffer, srvCalls, dispatched, handlerRaised>>
retryVars == <<mic, pcR, delay_i, micLog>>
streamVars == <<active_transcript_stream, tdeltas, textAtCreated>>
sendVars == <<pendingAppends, appendLog>>
extVars == <<toolVars, retryVars, streamVars, sendVars, pcM, stop_requested,
             mic_stream, micOps, playback_thread, alive_workers, pcS, outbox,
             idle_check, session_start_lock, session_threads, pcP>>
vars == <<cfgVars, extVars, sessVars, queueVars, playback_done_event, mainVars, pcT,
          workerVars, buttonVars, wakeVars, micVars, envVars, obsVars>>

\* ------------------------------------------------------------- helpers
Range(s) == {s[i] : i \in 1..Len(s)}

\* Record the first occurrence of a teardown step once the interrupt has
\* been observed by _on_audio_out.
Log(tr, observed, ev) == IF observed /\ ev \notin Range(tr) THEN Append(tr, ev) ELSE tr

\* queue.Queue.put: append and count one more unfinished task.
Put(q, c) == Append(q, c)


\* queue.Queue.task_done on a queue with unfinished tasks.
TaskDone(u) == u - 1

\* A join that returned as soon as nothing was left in the queue.
JoinReadyWhenEmpty == playback_queue = <<>>

\* queue.Queue.join returns when no task is unfinished.
JoinReady == unfinished_tasks = 0

\* str.strip(): drop leading and trailing whitespace.
RECURSIVE LStrip(_)
LStrip(s) == IF s # <<>> /\ Head(s) \in Whitespace THEN LStrip(Tail(s)) ELSE s

RECURSIVE RStrip(_)
RStrip(s) ==
    IF s # <<>> /\ s[Len(s)] \in Whitespace THEN RStrip(SubSeq(s, 1, Len(s) - 1)) ELSE s

Strip(s) == RStrip(LStrip(s))

\* A heuristic that finds a question in no transcript.
no_question_heuristic(text) == FALSE

\* BillySession._wants_follow_up_heuristic: any question punctuation in the
\* stripped accumulated transcript.
wants_follow_up_heuristic(text) ==
    LET txt == Strip(text)
    IN  \E ch \in QuestionChars : \E i \in 1..Len(txt) : txt[i] = ch

\* A decision under "auto" that listens to the tool declaration alone.
FollowUpToolOnly(mode, tool_expects, text) ==
    IF mode = "always" THEN TRUE
    ELSE IF mode = "never" THEN FALSE
    ELSE tool_expects

\* The follow-up decision of post_response_handling (lines 1385-1390).
FollowUpDecision(mode, tool_expects, text) ==
    IF mode = "always" THEN TRUE
    ELSE IF mode = "never" THEN FALSE
    ELSE tool_expects \/ wants_follow_up_heuristic(text)

\* A say() that leaves the configured run mode as it is.
say_keeps_run_mode(interactive, env_run_mode) ==
    [source |-> "say",
     kickoff_text |-> "text",
     kickoff_to_interactive |-> (interactive = "True"),
     autofollowup |-> IF interactive = "True" THEN "always"
                      ELSE IF interactive = "False" THEN "never" ELSE "auto",
     run_mode |-> env_run_mode]

\* say(): the session an MQTT announcement constructs.
say(interactive, env_run_mode) ==
    [source |-> "say",
     kickoff_text |-> "text",
     kickoff_to_interactive |-> (interactive = "True"),
     autofollowup |-> IF interactive = "True" THEN "always"
                      ELSE IF interactive = "False" THEN "never" ELSE "auto",
     run_mode |-> IF interactive = "False" THEN "dory" ELSE env_run_mode]

\* run_session(): the session a button press constructs.
run_session(env_run_mode) ==
    [source |-> "button",
     kickoff_text |-> NoneVal,
     kickoff_to_interactive |-> FALSE,
     autofollowup |-> "auto",
     run_mode |-> env_run_mode]

RunModes == {"normal", "dory"}

SessionConfigs ==
    {run_session(m) : m \in RunModes}
        \cup {say(i, m) : i \in {"None", "True", "False"}, m \in RunModes}

\* An event loop that never runs a coroutine scheduled from another thread.
NeverYielded == FALSE

\* A watchdog that ends the session once the idle time exceeds the
\* threshold minus the offset.
IdleVerdictMinusOffset(active, running, now, activity, played) ==
    IF ~active THEN "exit"
    ELSE IF ~running THEN "sleep_0.2"
    ELSE IF now - (IF activity >= played THEN activity ELSE played)
               > TicksPerSecond * (MIC_TIMEOUT_SECONDS - timeout_offset)
         THEN "stop_session"
         ELSE "sleep_0.5"

\* One iteration of the loop of mic_timeout_checker, lines 1319-1353, as a
\* function of what it reads: the loop ends in an inactive session; with the
\* mic not running it sleeps 0.2 s; else idle_seconds is the time since the
\* later of last_activity[0] and audio.last_played_time, elapsed is
\* idle_seconds less timeout_offset, and it calls stop_session when elapsed
\* is over MIC_TIMEOUT_SECONDS (which is over 0.5 s as well, line 1328),
\* else sleeps 0.5 s.  Times are in half seconds.
IdleVerdict(active, running, now, activity, played) ==
    IF ~active THEN "exit"
    ELSE IF ~running THEN "sleep_0.2"
    ELSE LET max == IF activity >= played THEN activity ELSE played
             idle_seconds == now - max
             elapsed == idle_seconds - TicksPerSecond * timeout_offset
         IN  IF elapsed > 1 /\ elapsed > TicksPerSecond * MIC_TIMEOUT_SECONDS
             THEN "stop_session"
             ELSE "sleep_0.5"

\* _start_mic_after_playback, lines 982-990, with the default delay of 0.6 s:
\* the time slept before attempt n, in tenths of a second.  Nothing is
\* slept before the first attempt.
wait_time(n) == IF n > 1 THEN 6 * (n - 1) + 5 ELSE 0

\* Points at which the main task is suspended in an await, so that another
\* coroutine of the same event loop may run.
MainYielded ==
    \/ pcE \in {"connect", "err_sound", "err_join", "recv", "rd_join", "rd_sleep",
                "ss_wait", "ss_closing", "prh_wait", "prh_closing", "done",
                "tool_sleep", "song_sleep"}
    \/ pcE \in {"smap_rd", "smap_prh"} /\ wait_time(attempt) > 0

\* The outcomes of one attempt to open the input device: it opens, or it
\* refuses as long as it has refusals left.
MicOutcomes == IF micFails < env.micRefusals THEN {TRUE, FALSE} ELSE {TRUE}

\* A backoff that shortens its delays.
delays_shrinking == <<4, 2, 1, 1, 1>>

\* A backoff with a sixth delay.
delays_six == <<1, 2, 4, 4, 4, 4>>

\* _retry_mic_loop line 895: the backoff delays, in half seconds
delays == <<1, 2, 4, 4, 4>>

\* _start_mic, lines 851-876, called with retry enabled: nothing when the mic
\* runs or the session is inactive; else one attempt to open the device with
\* the manager at hand, and on refusal the retry task is created.
start_mic ==
    IF ~mic_running /\ session_active
    THEN \E ok \in MicOutcomes :
            /\ mic_running' = ok
            /\ micFails' = IF ok THEN micFails ELSE micFails + 1
            /\ IF ok THEN UNCHANGED <<pcR, delay_i>>
               ELSE pcR' = "check" /\ delay_i' = 1
    ELSE UNCHANGED <<mic_running, micFails, pcR, delay_i>>

\* A task other than the main task runs while the main task is suspended;
\* it is cancelled with the event loop when start() has returned (button.py
\* line 162).
LoopIdle == MainYielded /\ pcE # "done"

\* A set of handlers in which the unknown name has one too, parsing its
\* arguments as play_song does.
EveryNameHandled == {"follow_up_intent", "play_song", "foo"}

\* The tools _on_tool_args_done has a handler for (six of the eight are
\* modelled), and a name it has none for.  The handlers of the last four
\* continue the conversation with messages of their own.
ToolHandlers ==
    {"follow_up_intent", "play_song",
     "update_personality", "smart_home_command", "identify_user",
     "store_memory"}
UnknownTool == "foo"
ToolNames == ToolHandlers \cup {UnknownTool}

\* What an argument text says once it is complete: expects_follow_up true,
\* expects_follow_up false, an empty object, or no valid JSON at all; for
\* play_song, an object that names a song.
ArgTexts == {"expects", "declines", "empty", "malformed", "song"}

\* A tool call the service has not begun.
NoCall == [name |-> NoneVal, says |-> NoneVal, sent |-> 0, done |-> FALSE]

\* A piece of the argument text of a call: part 0 is the complete text that a
\* done event carries in its "arguments" field, parts 1, 2, ... are the
\* texts of the call's delta events.
Piece(c, i) == [call |-> c, part |-> i]
WholeArgs(c) == <<Piece(c, 0)>>
DeltaArgs(calls, c) == [i \in 1..calls[c].sent |-> Piece(c, i)]

\* A message the session sends: its kind, the tool call it belongs to (0
\* for none) and whether that call came with a call id.
Message(kind, c, has_id) == [kind |-> kind, call |-> c, id |-> has_id]

\* A handler that sends its user message before the function result.
HandlerSendsMessageFirst(name, has_id) ==
    IF has_id THEN <<"user_message", "function_call_output">>
    ELSE <<"user_message">>

\* What the handler of a continuing tool sends, in order, once it has
\* something to say (session.py lines 636-672, 703-731 and 737-763,
\* 1592-1631, 1852-1886): _handle_identify_user and _handle_store_memory
\* update the session first (lines 1778 and 1852); the function result is
\* sent only for a call with a call id; the user message comes last.
\* _handle_identify_user is taken on the path that greets the user (lines
\* 1766-1790), _handle_store_memory with a current user.
HandlerSends(name, has_id) ==
    (IF name \in {"identify_user", "store_memory"} THEN <<"session.update">>
     ELSE <<>>)
        \o (IF has_id THEN <<"function_call_output">> ELSE <<>>)
        \o <<"user_message">>

\* json.loads(raw_args or "{}") as the handlers call it: what the text says
\* when it is the complete text of one call, "empty" for no text, and
\* "error" (json.JSONDecodeError) for anything else.
json_loads(raw, calls) ==
    IF raw = <<>> THEN "empty"
    ELSE LET whole == {c \in DOMAIN calls :
                          \/ raw = WholeArgs(c)
                          \/ calls[c].sent > 0 /\ raw = DeltaArgs(calls, c)}
         IN  IF whole = {} THEN "error"
             ELSE LET c == CHOOSE x \in whole : TRUE
                  IN  IF calls[c].says = "malformed" THEN "error"
                      ELSE calls[c].says

\* The surroundings of an ordinary session: the service answers with audio
\* and its transcript and may call follow_up_intent; the input device refuses
\* at most MaxMicFails attempts.
BaseEnv ==
    [micRefusals |-> MaxMicFails,
     turns |-> MaxTurns,
     chunks |-> MaxChunks,
     deltas |-> MaxDeltas,
     streams |-> {"audio"},
     writeFails |-> FALSE,
     tools |-> {"follow_up_intent"},
     argTexts |-> {"expects", "declines"},
     doneCarriesArgs |-> {TRUE},
     calls |-> 1,
     argDeltas |-> 0,
     peerCloses |-> TRUE,
     clipFiles |-> BOOLEAN,
     callIds |-> {TRUE},
     textOnly |-> FALSE]

\* The surroundings of a session whose input device opens at the first
\* attempt, and else as BaseEnv.
MicOpensEnv == [BaseEnv EXCEPT !.micRefusals = 0]

\* The surroundings of a session whose input device stays busy: it refuses
\* up to MaxRefusals attempts, enough for _start_mic and every attempt of
\* the retry loop.  The session has one turn, with one audio delta at most.
RetryEnv ==
    [BaseEnv EXCEPT !.micRefusals = MaxRefusals,
                    !.turns = 1, !.chunks = 1, !.deltas = 1]

\* The surroundings of a session of one turn whose transcript deltas come in
\* both streams, the audio transcript and the plain text.  The turn has one
\* audio delta at most.
StreamEnv ==
    [BaseEnv EXCEPT !.micRefusals = 0,
                    !.turns = 1,
                    !.chunks = 1,
                    !.deltas = MaxStreamDeltas,
                    !.streams = {"audio", "text"}]

\* The surroundings of a session of several turns; the argument text of a
\* follow_up_intent call may come in a delta event as well as in the done
\* event.  The session has one audio delta at most.
TurnsEnv ==
    [BaseEnv EXCEPT !.micRefusals = 0,
                    !.turns = MaxStreamTurns,
                    !.chunks = 1,
                    !.argDeltas = MaxArgDeltas]

\* The surroundings of a session whose output device may fail a write.
BrokenSinkEnv == [BaseEnv EXCEPT !.writeFails = TRUE]

\* The surroundings of a session in which the service calls tools: up to
\* MaxCalls calls of any tool, with a handler or without, whose argument text
\* arrives in delta events or in the done event and may be malformed.  The
\* turn has one audio delta at most.  The file of the error clip exists.
ToolEnv ==
    [micRefusals |-> 0,
     turns |-> MaxTurns,
     chunks |-> 1,
     deltas |-> MaxDeltas,
     streams |-> {"audio"},
     writeFails |-> FALSE,
     tools |-> {"follow_up_intent", "play_song", UnknownTool},
     argTexts |-> {"expects", "empty", "malformed"},
     doneCarriesArgs |-> BOOLEAN,
     calls |-> MaxCalls,
     argDeltas |-> MaxArgDeltas,
     peerCloses |-> TRUE,
     clipFiles |-> {TRUE},
     callIds |-> {TRUE},
     textOnly |-> FALSE]

\* The surroundings of a session in which the service calls the tools whose
\* handlers continue the conversation, up to MaxCalls calls with arguments
\* that are complete or an empty object, in one argument delta at most,
\* with a call id or without.  There is one turn, with one audio delta and
\* one transcript delta at most, and the input device opens.
ContinueEnv ==
    [BaseEnv EXCEPT !.micRefusals = 0,
                    !.turns = 1,
                    !.chunks = 1,
                    !.deltas = 1,
                    !.tools = ToolHandlers \ {"follow_up_intent", "play_song"},
                    !.argTexts = {"expects", "empty"},
                    !.calls = MaxCalls,
                    !.argDeltas = 1,
                    !.callIds = BOOLEAN]

\* The surroundings of a session in which the service, after up to two
\* audio deltas, calls play_song with a song or with an empty object; else
\* as ToolEnv.
SongEnv ==
    [ToolEnv EXCEPT !.tools = {"play_song"},
                    !.argTexts = {"song", "empty"},
                    !.chunks = 2,
                    !.calls = 1]

\* The surroundings of a session run with TEXT_ONLY_MODE set: the service
\* answers with text deltas and no audio; the input device opens.
TextOnlyEnv ==
    [MicOpensEnv EXCEPT !.textOnly = TRUE, !.chunks = 0, !.streams = {"text"}]

\* The surroundings of a session whose service never completes the close
\* handshake: it sends no close frame in answer to the session's, and keeps
\* the transport open.  The turn has two audio deltas at most; else as
\* MicOpensEnv.
SilentPeerEnv == [MicOpensEnv EXCEPT !.peerCloses = FALSE, !.chunks = 2]

\* The state in which the session thread begins start() for a session
\* constructed as c.  With clipPlayed the wake-up clip thread of a button
\* session has already run to its end: the clip was enqueued and written and
\* playback_done_event set (audio.py lines 354-364).
SessionBegins(c, clipPlayed) ==
    /\ source = c.source
    /\ autofollowup = c.autofollowup
    /\ run_mode = c.run_mode
    /\ kickoff_text = c.kickoff_text
    /\ kickoff_to_interactive = c.kickoff_to_interactive
    /\ ws = NoneVal /\ conn = "none" /\ ws_lock = "free"
    /\ session_active = FALSE
    /\ allow_mic_input = TRUE
    /\ mic_running = FALSE
    /\ full_response_text = <<>>
    /\ audio_buffer = 0
    /\ follow_up_expected = FALSE
    /\ saw_follow_up_call = "unset"
    /\ turn_had_speech = FALSE
    /\ first_text = TRUE
    /\ kickoff_first_turn_done = FALSE
    /\ last_activity = "init"
    /\ user_spoke_after_assistant = FALSE
    /\ playback_queue = <<>> /\ unfinished_tasks = 0
    /\ playback_done_event = clipPlayed
    \* on_button starts the worker before the session thread; an MQTT say
    \* finds it running only if an earlier session started it
    /\ worker_alive \in (IF source = "button" THEN {TRUE} ELSE BOOLEAN)
    /\ interrupt_event = FALSE
    /\ is_active = (source = "button")
    /\ pcE = "start" /\ wants_follow_up = FALSE
    /\ attempt = 0 /\ ssRet = NoneVal
    /\ pcT = "none"
    /\ pcW = "get" /\ item = <<>>
    /\ pcB = "idle"
    /\ pcU = (IF source = "button" /\ ~clipPlayed THEN "read" ELSE "done")
    /\ already_pending = 0
    /\ srv = "idle" /\ turns = 0 /\ nAudio = 0 /\ nText = 0 /\ toolSent = FALSE
    /\ clipExists = FALSE
    /\ micFails = 0 /\ frames = 0
    /\ sink = (IF clipPlayed THEN {WakeClip} ELSE {})
    /\ enqueued = (IF clipPlayed THEN {WakeClip} ELSE {})
    /\ joinSnap = {} /\ joinReturned = FALSE
    /\ flushSnap = {} /\ flushBegun = FALSE
    /\ saves = 0 /\ sent = 0 /\ dropped = 0
    /\ doneProcessed = FALSE /\ intrObserved = FALSE /\ intrSpeaking = FALSE
    /\ turnOpen = FALSE
    /\ trace = <<>>
    /\ tool_args_buffer = [n \in ToolNames |-> <<>>]
    /\ srvCalls = [k \in 1..env.calls |-> NoCall]
    /\ dispatched = <<>>
    /\ handlerRaised = FALSE
    /\ mic = 1 /\ pcR = "none" /\ delay_i = 1 /\ micLog = <<>>
    /\ active_transcript_stream = NoneVal /\ tdeltas = <<>>
    /\ textAtCreated = <<>>
    /\ pendingAppends = 0 /\ appendLog = {}
    /\ pcM = "none"
    /\ stop_requested = FALSE
    /\ mic_stream = NoneVal /\ micOps = <<>>
    /\ playback_thread = NoneVal /\ alive_workers = {}
    /\ pcS = [t \in {"button", "say_1", "say_2"} |-> "idle"]
    /\ outbox = <<>>
    /\ pcP = "idle"
    /\ session_threads = IF source = "button" THEN <<"running">> ELSE <<>>
    /\ session_start_lock = (source = "button")
    /\ idle_check = [active |-> FALSE, running |-> FALSE, now |-> 0,
                     last_activity |-> 0, last_played_time |-> 0,
                     did |-> "none"]

Init == env = BaseEnv /\ \E c \in SessionConfigs : SessionBegins(c, FALSE)

\* A button session whose wake-up clip has been played before start() begins.
ButtonInit == env = BaseEnv /\ \E m \in RunModes : SessionBegins(run_session(m), TRUE)

\* A button session whose wake-up clip thread has just been started.
WakeUpInit == env = MicOpensEnv /\ \E m \in RunModes : SessionBegins(run_session(m), FALSE)

\* A button session, after its wake-up clip, that the button may interrupt.
InterruptInit ==
    env = MicOpensEnv /\ \E m \in RunModes : SessionBegins(run_session(m), TRUE)

\* A button session whose service never completes a close handshake.
SilentPeerInit ==
    env = SilentPeerEnv /\ \E m \in RunModes : SessionBegins(run_session(m), TRUE)

\* A say session, or a button session after its wake-up clip.
SessionInit ==
    \/ env = BaseEnv
          /\ \E c \in SessionConfigs : c.source = "say" /\ SessionBegins(c, FALSE)
    \/ ButtonInit

\* A say session, or a button session after its wake-up clip, with an input
\* device that stays busy.
MicRetryInit ==
    /\ env = RetryEnv
    /\ \/ \E c \in SessionConfigs : c.source = "say" /\ SessionBegins(c, FALSE)
       \/ \E m \in RunModes : SessionBegins(run_session(m), TRUE)

\* A button session, after its wake-up clip, with transcripts in two streams.
StreamInit ==
    env = StreamEnv /\ \E m \in RunModes : SessionBegins(run_session(m), TRUE)

\* A button session, after its wake-up clip, of several turns.
TurnsInit ==
    env = TurnsEnv /\ \E m \in RunModes : SessionBegins(run_session(m), TRUE)

\* A say session, or a button session after its wake-up clip, with an output
\* device that may fail.
BrokenSinkInit ==
    /\ env = BrokenSinkEnv
    /\ \/ \E c \in SessionConfigs : c.source = "say" /\ SessionBegins(c, FALSE)
       \/ \E m \in RunModes : SessionBegins(run_session(m), TRUE)

\* A button session, after its wake-up clip, in which the service calls tools.
ToolInit == env = ToolEnv /\ \E m \in RunModes : SessionBegins(run_session(m), TRUE)


\* =================================================== playback worker thread
\* audio.py playback_worker, line 119: item = playback_queue.get()
playback_worker_get ==
    /\ pcW = "get" /\ worker_alive
    /\ playback_queue # <<>>
    /\ item' = <<Head(playback_queue)>>
    /\ playback_queue' = Tail(playback_queue)
    /\ pcW' = "write"
    /\ UNCHANGED <<cfgVars, extVars, sessVars, unfinished_tasks, playback_done_event,
                   mainVars,
                   pcT, sink, worker_alive, buttonVars, wakeVars, micVars,
                   envVars,
                   obsVars>>

\* lines 170-208: stream.write of the chunk, then playback_queue.task_done()
playback_worker_write ==
    /\ pcW = "write"
    /\ sink' = sink \cup Range(item)
    /\ unfinished_tasks' = TaskDone(unfinished_tasks)
    /\ pcW' = "get"
    /\ item' = <<>>
    /\ UNCHANGED <<cfgVars, extVars, sessVars, playback_queue, playback_done_event,
                   mainVars,
                   pcT, worker_alive, buttonVars, wakeVars, micVars, envVars,
                   obsVars>>

\* lines 170-213: stream.write raises.  The exception leaves the loop, is
\* logged, and the finally clause sets playback_done_event; the thread ends
\* without task_done for the chunk it held.
playback_worker_fail ==
    /\ pcW = "write"
    /\ env.writeFails
    /\ item' = <<>>
    /\ pcW' = "get"
    /\ worker_alive' = FALSE
    /\ playback_done_event' = TRUE
    /\ UNCHANGED <<cfgVars, extVars, sessVars, queueVars, mainVars, pcT, sink,
                   buttonVars, wakeVars, micVars, envVars, obsVars>>

\* ==================================================== wake-up clip thread
\* audio.py play_random_wake_up_clip, line 354
wake_up_read_pending ==
    /\ pcU = "read"
    /\ already_pending' = unfinished_tasks
    /\ pcU' = "enqueue"
    /\ UNCHANGED <<cfgVars, extVars, sessVars, queueVars, playback_done_event, mainVars,
                   pcT,
                   workerVars, buttonVars, micVars, envVars, obsVars>>

\* line 357: enqueue_wav_to_playback(clip)
wake_up_enqueue ==
    /\ pcU = "enqueue"
    /\ playback_queue' = Put(playback_queue, WakeClip)
    /\ unfinished_tasks' = unfinished_tasks + 1
    /\ enqueued' = enqueued \cup {WakeClip}
    /\ pcU' = "wait"
    /\ UNCHANGED <<cfgVars, extVars, sessVars, playback_done_event, mainVars, pcT,
                   workerVars,
                   buttonVars, already_pending, micVars, envVars, joinSnap,
                   joinReturned, saves, doneProcessed, intrObserved, turnOpen,
                   trace>>

\* lines 360-364: poll until the new chunks are finished, then set the event
wake_up_done ==
    /\ pcU = "wait"
    /\ ~(unfinished_tasks > already_pending)
    /\ playback_done_event' = TRUE
    /\ pcU' = "done"
    /\ UNCHANGED <<cfgVars, extVars, sessVars, queueVars, mainVars, pcT, workerVars,
                   buttonVars, already_pending, micVars, envVars, obsVars>>

\* ============================================================ button thread
\* button.py on_button, lines 93-95: a press while the session is active.
\* The debounce (lines 85-88) keeps the press at least 0.5 s after the one
\* that started the session, so start() has begun and the loop exists.
on_button ==
    /\ pcB = "idle" /\ is_active
    /\ pcE # "start"
    /\ interrupt_event' = TRUE
    /\ intrSpeaking' = (turnOpen /\ session_active)
    /\ pcB' = "stop_playback"
    /\ UNCHANGED <<cfgVars, extVars, sessVars, queueVars, playback_done_event, mainVars,
                   pcT,
                   workerVars, is_active, flushSnap, flushBegun, wakeVars,
                   micVars, envVars, obsVars>>

\* audio.py stop_playback, lines 371-377: one pass of the drain loop,
\* get_nowait and task_done; an empty queue (seen by empty() or raised by
\* get_nowait) ends the loop and sets playback_done_event.
stop_playback ==
    /\ pcB = "stop_playback"
    /\ IF playback_queue = <<>>
       THEN /\ playback_done_event' = TRUE
            /\ pcB' = "schedule"
            /\ UNCHANGED queueVars
       ELSE /\ playback_queue' = Tail(playback_queue)
            /\ unfinished_tasks' = TaskDone(unfinished_tasks)
            /\ UNCHANGED <<pcB, playback_done_event>>
    /\ flushBegun' = TRUE
    /\ flushSnap' = IF flushBegun THEN flushSnap ELSE enqueued
    /\ UNCHANGED <<cfgVars, extVars, sessVars, mainVars, pcT, workerVars,
                   interrupt_event,
                   is_active, intrSpeaking, wakeVars, micVars, envVars,
                   obsVars>>

\* on_button lines 98-108: schedule stop_session on the session's loop
on_button_schedule ==
    /\ pcB = "schedule"
    /\ pcT' = "ready"
    /\ pcB' = "wait"
    /\ UNCHANGED <<cfgVars, extVars, sessVars, queueVars, playback_done_event, mainVars,
                   workerVars, interrupt_event, is_active, flushSnap,
                   flushBegun,
                   intrSpeaking, wakeVars, micVars, envVars, obsVars>>

\* lines 110-128: future.result(timeout=5.0).  The result arrives when
\* stop_session has finished; the timeout fires, and the future is
\* cancelled, only when stop_session cannot finish (it waits for ws_lock).
on_button_result ==
    /\ pcB = "wait"
    /\ pcT \in {"done", "ss_wait"}
    /\ pcT' = IF pcT = "ss_wait" THEN "cancelled" ELSE pcT
    /\ is_active' = FALSE
    /\ pcB' = "done"
    /\ UNCHANGED <<cfgVars, extVars, sessVars, queueVars, playback_done_event, mainVars,
                   workerVars, interrupt_event, flushSnap, flushBegun,
                   intrSpeaking,
                   wakeVars, micVars, envVars, obsVars>>

\* A first check that looks at allow_mic_input alone.
MicBlockedByInputOnly == ~allow_mic_input

\* mic_callback check 1, line 1183
MicBlocked == ~allow_mic_input \/ ~session_active

\* mic_callback, lines 1181-1216, run by the audio input thread for one frame:
\* check 1 drops the frame when mic input is not allowed or the session is
\* inactive, check 2 drops it while the wake-up sound plays; otherwise a loud
\* frame updates last_activity and the frame goes to send_mic_audio.
mic_callback ==
    /\ mic_running
    /\ frames < MaxFrames
    /\ frames' = frames + 1
    /\ IF MicBlocked
       THEN /\ dropped' = dropped + 1
            /\ UNCHANGED <<sent, last_activity, user_spoke_after_assistant,
                           pendingAppends>>
       ELSE IF ~env.textOnly /\ ~playback_done_event
            THEN UNCHANGED <<sent, dropped, last_activity,
                             user_spoke_after_assistant, pendingAppends>>
            ELSE /\ \E loud \in BOOLEAN :
                       IF loud
                       THEN /\ last_activity' = "mic"
                            /\ user_spoke_after_assistant' = TRUE
                       ELSE UNCHANGED <<last_activity,
                                        user_spoke_after_assistant>>
                 /\ sent' = sent + 1
                 \* audio.py lines 275-283: ws.send is scheduled on the loop;
                 \* with ws None the call raises and is only logged
                 /\ pendingAppends' = IF ws # NoneVal THEN pendingAppends + 1
                                      ELSE pendingAppends
                 /\ UNCHANGED dropped
    /\ UNCHANGED <<cfgVars, pcP, session_threads, session_start_lock, idle_check, outbox, playback_thread, alive_workers, pcS,
                   mic_stream, micOps, pcM, stop_requested, toolVars, retryVars, streamVars, appendLog, ws, conn, ws_lock, session_active, allow_mic_input,
                   mic_running, full_response_text, audio_buffer,
                   follow_up_expected,
                   saw_follow_up_call, turn_had_speech, first_text,
                   kickoff_first_turn_done, queueVars, playback_done_event,
                   mainVars, pcT, workerVars, buttonVars, wakeVars, envVars,
                   obsVars>>

\* The coroutine send_mic_audio has scheduled, audio.py lines 275-283: the
\* event loop runs ws.send of the input_audio_buffer.append message.  It
\* does not take ws_lock.
send_mic_audio_coroutine ==
    /\ pendingAppends > 0
    /\ LoopIdle
    /\ pendingAppends' = pendingAppends - 1
    /\ appendLog' = appendLog \cup {[lock |-> ws_lock]}
    /\ UNCHANGED <<cfgVars, pcP, session_threads, session_start_lock, idle_check, outbox, playback_thread, alive_workers, pcS,
                   mic_stream, micOps, pcM, stop_requested, toolVars, retryVars, streamVars, sessVars, queueVars,
                   playback_done_event, mainVars, pcT, workerVars, buttonVars,
                   wakeVars, micVars, envVars, obsVars>>

\* ==================================== main task of the event loop: start()
\* session.py start, lines 1044-1090: reset the session state, take ws_lock
\* and begin to connect.
start ==
    /\ pcE = "start"
    /\ audio_buffer' = 0
    /\ first_text' = TRUE
    /\ full_response_text' = <<>>
    /\ last_activity' = "start"
    /\ session_active' = TRUE
    /\ user_spoke_after_assistant' = FALSE
    /\ allow_mic_input' = TRUE
    /\ ws_lock' = "main"
    /\ pcE' = "connect"
    /\ UNCHANGED <<cfgVars, extVars, ws, conn, mic_running, follow_up_expected,
                   saw_follow_up_call, turn_had_speech, kickoff_first_turn_done,
                   queueVars, playback_done_event, wants_follow_up, attempt,
                   ssRet, pcT, workerVars, buttonVars, wakeVars, micVars,
                   envVars,
                   obsVars>>

\* lines 1087-1177: the connection is made and configured (and the kickoff
\* sent), or one of these raises and the error clip is played with ws_lock
\* still held by start().
start_connect ==
    /\ pcE = "connect"
    /\ \E outcome \in {"ok", "refused", "send_failed"} :
          IF outcome = "ok"
          THEN /\ ws' = "obj"
               /\ conn' = "open"
               /\ ws_lock' = "free"
               \* lines 1175-1177, skipped under TEXT_ONLY_MODE
               /\ playback_done_event' = (env.textOnly /\ playback_done_event)
               /\ worker_alive' = (~env.textOnly \/ worker_alive)
               /\ pcE' = "run_stream"
               \* lines 1128-1155: the kickoff text as a user message, then
               \* response.create
               /\ outbox' = IF kickoff_text # NoneVal
                             THEN <<Message("user_message", 0, FALSE),
                                    Message("response.create", 0, FALSE)>>
                             ELSE outbox
          ELSE /\ ws' = IF outcome = "refused" THEN NoneVal ELSE "obj"
               /\ conn' = IF outcome = "refused" THEN "none" ELSE "closed_err"
               /\ pcE' = "err_sound"
               /\ UNCHANGED <<ws_lock, playback_done_event, worker_alive,
                              outbox>>
    /\ UNCHANGED <<cfgVars, pcP, session_threads, session_start_lock, idle_check, toolVars, retryVars, streamVars, sendVars, pcM, stop_requested,
                   mic_stream, micOps, playback_thread, alive_workers, pcS,
                   session_active, allow_mic_input, mic_running,
                   full_response_text, audio_buffer, follow_up_expected,
                   saw_follow_up_call, turn_had_speech, first_text,
                   kickoff_first_turn_done,
                   last_activity, user_spoke_after_assistant, queueVars,
                   wants_follow_up, attempt, ssRet, pcT, pcW, item, sink,
                   buttonVars,
                   wakeVars, micVars, envVars, obsVars>>

\* _play_error_sound, lines 1450-1462: enqueue the clip when the file exists
play_error_sound ==
    /\ pcE = "err_sound"
    /\ clipExists' \in env.clipFiles
    /\ IF clipExists'
       THEN /\ playback_queue' = Put(playback_queue, ErrClip)
            /\ unfinished_tasks' = unfinished_tasks + 1
            /\ enqueued' = enqueued \cup {ErrClip}
            /\ joinSnap' = enqueued \cup {ErrClip}
            /\ joinReturned' = FALSE
            /\ pcE' = "err_join"
       ELSE /\ pcE' = "ss_begin"
            /\ UNCHANGED <<queueVars, enqueued, joinSnap, joinReturned>>
    /\ ssRet' = "start_return"
    /\ UNCHANGED <<cfgVars, extVars, sessVars, playback_done_event, wants_follow_up,
                   attempt, pcT, workerVars, buttonVars, wakeVars, micVars, srv,
                   turns, nAudio, nText, toolSent, micFails, saves,
                   doneProcessed,
                   intrObserved, turnOpen, trace>>

\* line 1460: await asyncio.to_thread(audio.playback_queue.join)
play_error_sound_join ==
    /\ pcE = "err_join"
    /\ JoinReady
    /\ joinReturned' = TRUE
    /\ pcE' = "ss_begin"
    /\ UNCHANGED <<cfgVars, extVars, sessVars, queueVars, playback_done_event,
                   wants_follow_up, attempt, ssRet, pcT, workerVars, buttonVars,
                   wakeVars, micVars, envVars, enqueued, joinSnap, saves,
                   doneProcessed, intrObserved, turnOpen, trace>>

\* The pc the main task continues at when stop_session returns.
\* The seconds close() waits for the peer's close frame before it drops the
\* transport: connect() is called with no close_timeout (lines 1088-1090),
\* which leaves the connection the default of the websockets library.  No
\* timeout is written as 0.
no_close_timeout == 0

close_timeout == 10

\* await self.ws.close() returns (lines 1366, 1410 and 1427): the peer
\* completed the handshake, or close_timeout expired and the transport was
\* dropped.  The wait_closed() that follows returns at once on a dropped
\* transport, under the wait_for of line 1430 or without it.
CloseReturns == env.peerCloses \/ close_timeout > 0

AfterStop(ret) ==
    IF ret = "start_return" THEN "exit"
    ELSE IF ret = "song_return" THEN "song_sleep"
    ELSE "recv"

\* stop_session, lines 1415-1436, called by the main task: clear the flag,
\* stop the mic and take ws_lock to close the connection.
stop_session ==
    /\ pcE = "ss_begin"
    /\ session_active' = FALSE
    /\ mic_running' = FALSE
    /\ trace' = Log(Log(trace, intrObserved, "inactive"), intrObserved, "mic_stop")
    /\ IF ws_lock = "free"
       THEN IF ws # NoneVal
            THEN /\ ws_lock' = "main"
                 /\ conn' = IF conn = "open" THEN "closed_ok" ELSE conn
                 /\ pcE' = "ss_closing"
                 /\ UNCHANGED doneProcessed
            ELSE /\ pcE' = AfterStop(ssRet)
                 /\ doneProcessed' = (doneProcessed \/ ssRet = "handler_return")
                 /\ UNCHANGED <<ws_lock, conn>>
       ELSE /\ pcE' = "ss_wait"
            /\ UNCHANGED <<ws_lock, conn, doneProcessed>>
    /\ UNCHANGED <<cfgVars, extVars, ws, allow_mic_input, full_response_text,
                   audio_buffer,
                   follow_up_expected, saw_follow_up_call, turn_had_speech,
                   first_text, kickoff_first_turn_done, last_activity,
                   user_spoke_after_assistant, queueVars, playback_done_event,
                   wants_follow_up, attempt, ssRet, pcT, workerVars, buttonVars,
                   wakeVars, micVars, envVars, enqueued, joinSnap, joinReturned,
                   saves, intrObserved, turnOpen>>

\* line 1424: async with self.ws_lock, once the lock is released to the
\* waiting main task
stop_session_locked ==
    /\ pcE = "ss_wait"
    /\ ws_lock = "free"
    /\ IF ws # NoneVal
       THEN /\ ws_lock' = "main"
            /\ conn' = IF conn = "open" THEN "closed_ok" ELSE conn
            /\ pcE' = "ss_closing"
            /\ UNCHANGED doneProcessed
       ELSE /\ pcE' = AfterStop(ssRet)
            /\ doneProcessed' = (doneProcessed \/ ssRet = "handler_return")
            /\ UNCHANGED <<ws_lock, conn>>
    /\ UNCHANGED <<cfgVars, extVars, ws, session_active, allow_mic_input, mic_running,
                   full_response_text, audio_buffer, follow_up_expected,
                   saw_follow_up_call, turn_had_speech, first_text,
                   kickoff_first_turn_done,
                   last_activity, user_spoke_after_assistant, queueVars,
                   playback_done_event, wants_follow_up, attempt, ssRet, pcT,
                   workerVars, buttonVars, wakeVars, micVars, envVars, enqueued,
                   joinSnap, joinReturned, saves, intrObserved, turnOpen,
                   trace>>

\* lines 1427-1436: the close completes (or its wait times out) and the
\* handle is dropped
stop_session_closed ==
    /\ pcE = "ss_closing"
    /\ CloseReturns
    /\ ws' = NoneVal
    /\ ws_lock' = "free"
    /\ trace' = Log(trace, intrObserved, "ws_none")
    /\ pcE' = AfterStop(ssRet)
    /\ doneProcessed' = (doneProcessed \/ ssRet = "handler_return")
    /\ UNCHANGED <<cfgVars, extVars, conn, session_active, allow_mic_input, mic_running,
                   full_response_text, audio_buffer, follow_up_expected,
                   saw_follow_up_call, turn_had_speech, first_text,
                   kickoff_first_turn_done,
                   last_activity, user_spoke_after_assistant, queueVars,
                   playback_done_event, wants_follow_up, attempt, ssRet, pcT,
                   workerVars, buttonVars, wakeVars, micVars, envVars, enqueued,
                   joinSnap, joinReturned, saves, intrObserved, turnOpen>>

\* ================= stop_session as the coroutine the button thread scheduled
stop_session_task ==
    /\ pcT = "ready"
    /\ MainYielded
    /\ session_active' = FALSE
    /\ mic_running' = FALSE
    /\ trace' = Log(Log(trace, intrObserved, "inactive"), intrObserved, "mic_stop")
    /\ IF ws_lock = "free"
       THEN IF ws # NoneVal
            THEN /\ ws_lock' = "stop"
                 /\ conn' = IF conn = "open" THEN "closed_ok" ELSE conn
                 /\ pcT' = "ss_closing"
            ELSE /\ pcT' = "done"
                 /\ UNCHANGED <<ws_lock, conn>>
       ELSE /\ pcT' = "ss_wait"
            /\ UNCHANGED <<ws_lock, conn>>
    /\ UNCHANGED <<cfgVars, extVars, ws, allow_mic_input, full_response_text,
                   audio_buffer,
                   follow_up_expected, saw_follow_up_call, turn_had_speech,
                   first_text, kickoff_first_turn_done, last_activity,
                   user_spoke_after_assistant, queueVars, playback_done_event,
                   mainVars, workerVars, buttonVars, wakeVars, micVars, envVars,
                   enqueued, joinSnap, joinReturned, saves, doneProcessed,
                   intrObserved, turnOpen>>

stop_session_task_locked ==
    /\ pcT = "ss_wait"
    /\ MainYielded
    /\ ws_lock = "free"
    /\ IF ws # NoneVal
       THEN /\ ws_lock' = "stop"
            /\ conn' = IF conn = "open" THEN "closed_ok" ELSE conn
            /\ pcT' = "ss_closing"
       ELSE /\ pcT' = "done"
            /\ UNCHANGED <<ws_lock, conn>>
    /\ UNCHANGED <<cfgVars, extVars, ws, session_active, allow_mic_input, mic_running,
                   full_response_text, audio_buffer, follow_up_expected,
                   saw_follow_up_call, turn_had_speech, first_text,
                   kickoff_first_turn_done,
                   last_activity, user_spoke_after_assistant, queueVars,
                   playback_done_event, mainVars, workerVars, buttonVars,
                   wakeVars,
                   micVars, envVars, obsVars>>

stop_session_task_closed ==
    /\ pcT = "ss_closing"
    /\ MainYielded
    /\ CloseReturns
    /\ ws' = NoneVal
    /\ ws_lock' = "free"
    /\ trace' = Log(trace, intrObserved, "ws_none")
    /\ pcT' = "done"
    /\ UNCHANGED <<cfgVars, extVars, conn, session_active, allow_mic_input, mic_running,
                   full_response_text, audio_buffer, follow_up_expected,
                   saw_follow_up_call, turn_had_speech, first_text,
                   kickoff_first_turn_done,
                   last_activity, user_spoke_after_assistant, queueVars,
                   playback_done_event, mainVars, workerVars, buttonVars,
                   wakeVars,
                   micVars, envVars, enqueued, joinSnap, joinReturned, saves,
                   doneProcessed, intrObserved, turnOpen>>


\* ================================================= the idle watchdog task
\* More than MIC_TIMEOUT_SECONDS + 2 seconds can pass without a write to
\* last_activity or audio.last_played_time (line 1325): the main task waits
\* for the next message, which the service sends when it likes, the playback
\* queue is empty and the worker writes nothing.  The mic callback writes
\* last_activity only for a loud frame (line 1213).
IdleElapsed ==
    /\ pcE = "recv"
    /\ playback_queue = <<>>
    /\ pcW = "get"

\* mic_timeout_checker, lines 1315-1353, created when the mic opens (lines
\* 869, 914 and 1003).  In an inactive session the task's loop ends (line
\* 1319).  While the session is active and the mic runs, idle time over the
\* limit makes the task call stop_session (lines 1415-1436) and end.
mic_timeout_checker ==
    /\ pcM = "none"
    /\ LoopIdle
    /\ IF ~session_active
       THEN /\ pcM' = "done"
            /\ UNCHANGED <<sessVars, trace>>
       ELSE /\ mic_running
            /\ IdleElapsed
            /\ session_active' = FALSE
            /\ mic_running' = FALSE
            /\ trace' = Log(Log(trace, intrObserved, "inactive"), intrObserved,
                            "mic_stop")
            /\ IF ws_lock = "free"
               THEN IF ws # NoneVal
                    THEN /\ ws_lock' = "watchdog"
                         /\ conn' = IF conn = "open" THEN "closed_ok" ELSE conn
                         /\ pcM' = "ss_closing"
                    ELSE /\ pcM' = "done"
                         /\ UNCHANGED <<ws_lock, conn>>
               ELSE /\ pcM' = "ss_wait"
                    /\ UNCHANGED <<ws_lock, conn>>
            /\ UNCHANGED <<ws, allow_mic_input, full_response_text,
                           audio_buffer, follow_up_expected,
                           saw_follow_up_call, turn_had_speech, first_text,
                           kickoff_first_turn_done, last_activity,
                           user_spoke_after_assistant>>
    /\ UNCHANGED <<cfgVars, pcP, session_threads, session_start_lock, idle_check, outbox, playback_thread, alive_workers, pcS,
                   mic_stream, micOps, stop_requested, toolVars, retryVars, streamVars,
                   sendVars, queueVars, playback_done_event,
                   mainVars, pcT, workerVars, buttonVars, wakeVars, micVars,
                   envVars, enqueued, joinSnap, joinReturned, saves,
                   doneProcessed, intrObserved, turnOpen>>

\* One iteration of the watchdog's loop on its own, as long as the loop has
\* not ended: it reads the flags, the clock, which has not gone back since
\* the iteration before, and the two timestamps, each of them as it was or
\* written since, and does what IdleVerdict says.
mic_timeout_iteration ==
    /\ idle_check.did \notin {"exit", "stop_session"}
    /\ \E active \in BOOLEAN, running \in BOOLEAN,
          now \in {idle_check.now, idle_check.now + 1} \cap (0..MaxClock) :
          \E activity \in {idle_check.last_activity, now},
             played \in {idle_check.last_played_time, now} :
             idle_check' =
                [active |-> active, running |-> running, now |-> now,
                 last_activity |-> activity, last_played_time |-> played,
                 did |-> IdleVerdict(active, running, now, activity, played)]
    /\ UNCHANGED <<cfgVars, pcP, session_threads, session_start_lock, toolVars, retryVars, streamVars, sendVars, pcM,
                   stop_requested, mic_stream, micOps, playback_thread,
                   alive_workers, pcS, outbox, sessVars, queueVars,
                   playback_done_event, mainVars, pcT, workerVars, buttonVars,
                   wakeVars, micVars, envVars, obsVars>>

\* line 1424 in the watchdog's stop_session: async with self.ws_lock, once
\* the lock is released to the waiting watchdog
mic_timeout_checker_locked ==
    /\ pcM = "ss_wait"
    /\ MainYielded
    /\ ws_lock = "free"
    /\ IF ws # NoneVal
       THEN /\ ws_lock' = "watchdog"
            /\ conn' = IF conn = "open" THEN "closed_ok" ELSE conn
            /\ pcM' = "ss_closing"
       ELSE /\ pcM' = "done"
            /\ UNCHANGED <<ws_lock, conn>>
    /\ UNCHANGED <<cfgVars, pcP, session_threads, session_start_lock, idle_check, outbox, playback_thread, alive_workers, pcS,
                   mic_stream, micOps, stop_requested, toolVars, retryVars, streamVars,
                   sendVars, ws,
                   session_active, allow_mic_input, mic_running,
                   full_response_text, audio_buffer, follow_up_expected,
                   saw_follow_up_call, turn_had_speech, first_text,
                   kickoff_first_turn_done, last_activity,
                   user_spoke_after_assistant, queueVars, playback_done_event,
                   mainVars, pcT, workerVars, buttonVars, wakeVars, micVars,
                   envVars, obsVars>>

\* lines 1427-1436 in the watchdog's stop_session: the close returns and the
\* handle is dropped
mic_timeout_checker_closed ==
    /\ pcM = "ss_closing"
    /\ MainYielded
    /\ CloseReturns
    /\ ws' = NoneVal
    /\ ws_lock' = "free"
    /\ trace' = Log(trace, intrObserved, "ws_none")
    /\ pcM' = "done"
    /\ UNCHANGED <<cfgVars, pcP, session_threads, session_start_lock, idle_check, outbox, playback_thread, alive_workers, pcS,
                   mic_stream, micOps, stop_requested, toolVars, retryVars, streamVars,
                   sendVars, conn,
                   session_active, allow_mic_input, mic_running,
                   full_response_text, audio_buffer, follow_up_expected,
                   saw_follow_up_call, turn_had_speech, first_text,
                   kickoff_first_turn_done, last_activity,
                   user_spoke_after_assistant, queueVars, playback_done_event,
                   mainVars, pcT, workerVars, buttonVars, wakeVars, micVars,
                   envVars, enqueued, joinSnap, joinReturned, saves,
                   doneProcessed, intrObserved, turnOpen>>

\* ==================================================== a MicManager object
\* MicManager.start, mic.py lines 46-86: stop() first, then open the device.
\* The constructor of the stream may raise, which leaves self.stream None;
\* or the stream's start() may raise, which leaves the object that was
\* assigned; the fallback to the default device has the same outcomes.
mic_manager_start ==
    /\ Len(micOps) < MaxMicOps
    /\ \E outcome \in {"started", "unstarted", NoneVal} :
          /\ mic_stream' = outcome
          /\ micOps' = Append(micOps, [op |-> "start", before |-> mic_stream,
                                       after |-> outcome])
    /\ UNCHANGED <<cfgVars, pcP, session_threads, session_start_lock, idle_check, outbox, playback_thread, alive_workers, pcS,
                   toolVars, retryVars, streamVars, sendVars, pcM,
                   stop_requested, sessVars, queueVars, playback_done_event,
                   mainVars, pcT, workerVars, buttonVars, wakeVars, micVars,
                   envVars, obsVars>>

\* A stop() that keeps the stream object when closing it raises.
mic_manager_stop_keeps ==
    /\ Len(micOps) < MaxMicOps
    /\ \E raises \in BOOLEAN :
          /\ mic_stream' = IF mic_stream # NoneVal /\ ~raises THEN NoneVal
                         ELSE mic_stream
          /\ micOps' = Append(micOps, [op |-> "stop", before |-> mic_stream,
                                       after |-> mic_stream'])
    /\ UNCHANGED <<cfgVars, pcP, session_threads, session_start_lock, idle_check, outbox, playback_thread, alive_workers, pcS,
                   toolVars, retryVars, streamVars, sendVars, pcM,
                   stop_requested, sessVars, queueVars, playback_done_event,
                   mainVars, pcT, workerVars, buttonVars, wakeVars, micVars,
                   envVars, obsVars>>

\* MicManager.stop, mic.py lines 88-95: with a stream, stop and close it,
\* print the exception if either raises, and set self.stream to None;
\* without a stream, nothing.
mic_manager_stop ==
    /\ Len(micOps) < MaxMicOps
    /\ \E raises \in BOOLEAN :
          /\ mic_stream' = IF mic_stream # NoneVal THEN NoneVal ELSE mic_stream
          /\ micOps' = Append(micOps, [op |-> "stop", before |-> mic_stream,
                                       after |-> mic_stream'])
    /\ UNCHANGED <<cfgVars, pcP, session_threads, session_start_lock, idle_check, outbox, playback_thread, alive_workers, pcS,
                   toolVars, retryVars, streamVars, sendVars, pcM,
                   stop_requested, sessVars, queueVars, playback_done_event,
                   mainVars, pcT, workerVars, buttonVars, wakeVars, micVars,
                   envVars, obsVars>>

\* ======================== threads that make sure the playback worker runs
\* ensure_playback_worker_started, audio.py lines 216-224, called by the
\* button thread (button.py line 147) and by the thread of each session
\* (session.py line 1177), of which every MQTT say message starts one
\* (mqtt.py lines 225-228).  Line 220: the test of _playback_thread.
ensure_playback_worker_started ==
    \E c \in DOMAIN pcS :
        /\ pcS[c] = "idle"
        /\ pcS' = [pcS EXCEPT ![c] =
                      IF playback_thread = NoneVal
                            \/ playback_thread \notin alive_workers
                      THEN "create" ELSE "done"]
        /\ UNCHANGED <<cfgVars, pcP, session_threads, session_start_lock, idle_check, outbox, toolVars, retryVars, streamVars, sendVars, pcM,
                       stop_requested, mic_stream, micOps, playback_thread,
                       alive_workers, sessVars, queueVars, playback_done_event,
                       mainVars, pcT, workerVars, buttonVars, wakeVars,
                       micVars, envVars, obsVars>>

\* lines 221-223: a Thread object is made and assigned to _playback_thread
ensure_playback_worker_assign ==
    \E c \in DOMAIN pcS :
        /\ pcS[c] = "create"
        /\ playback_thread' = c
        /\ pcS' = [pcS EXCEPT ![c] = "start"]
        /\ UNCHANGED <<cfgVars, pcP, session_threads, session_start_lock, idle_check, outbox, toolVars, retryVars, streamVars, sendVars, pcM,
                       stop_requested, mic_stream, micOps, alive_workers,
                       sessVars, queueVars, playback_done_event, mainVars, pcT,
                       workerVars, buttonVars, wakeVars, micVars, envVars,
                       obsVars>>

\* line 224: _playback_thread.start() on the object the global holds now;
\* starting a thread twice raises RuntimeError
ensure_playback_worker_start ==
    \E c \in DOMAIN pcS :
        /\ pcS[c] = "start"
        /\ IF playback_thread \in alive_workers
           THEN /\ pcS' = [pcS EXCEPT ![c] = "raised"]
                /\ UNCHANGED alive_workers
           ELSE /\ alive_workers' = alive_workers \cup {playback_thread}
                /\ pcS' = [pcS EXCEPT ![c] = "done"]
        /\ UNCHANGED <<cfgVars, pcP, session_threads, session_start_lock, idle_check, outbox, toolVars, retryVars, streamVars, sendVars, pcM,
                       stop_requested, mic_stream, micOps, playback_thread,
                       sessVars, queueVars, playback_done_event, mainVars, pcT,
                       workerVars, buttonVars, wakeVars, micVars, envVars,
                       obsVars>>

\* ================================================ the explicit stop request
\* request_stop, lines 1438-1440, run by the event loop while the main task
\* is suspended: it clears session_active and does nothing else.
request_stop ==
    /\ ~stop_requested
    /\ LoopIdle
    /\ session_active
    /\ session_active' = FALSE
    /\ stop_requested' = TRUE
    /\ UNCHANGED <<cfgVars, pcP, session_threads, session_start_lock, idle_check, outbox, playback_thread, alive_workers, pcS,
                   mic_stream, micOps, pcM, toolVars, retryVars, streamVars,
                   sendVars, ws,
                   conn, ws_lock, allow_mic_input, mic_running,
                   full_response_text, audio_buffer, follow_up_expected,
                   saw_follow_up_call, turn_had_speech, first_text,
                   kickoff_first_turn_done, last_activity,
                   user_spoke_after_assistant, queueVars, playback_done_event,
                   mainVars, pcT, workerVars, buttonVars, wakeVars, micVars,
                   envVars, obsVars>>

\* ==================================================== main task: run_stream
\* The lock step of the two closing branches of post_response_handling
\* (lines 1365-1369 and 1409-1413) leads to one of these positions.
CloseOrExit == IF ws_lock # "free" THEN "prh_wait"
               ELSE IF ws # NoneVal THEN "prh_closing" ELSE "exit"

\* run_stream, lines 1219-1238: the mic is started at once unless this is a
\* kickoff session; _start_mic (lines 856-876) does nothing when the mic
\* runs or the session is inactive, and the device may refuse to open.
run_stream ==
    /\ pcE = "run_stream"
    /\ IF kickoff_text = NoneVal
       THEN start_mic
       ELSE UNCHANGED <<mic_running, micFails, pcR, delay_i>>
    /\ pcE' = "recv"
    /\ UNCHANGED <<cfgVars, pcP, session_threads, session_start_lock, idle_check, outbox, playback_thread, alive_workers, pcS,
                   mic_stream, micOps, pcM, stop_requested, toolVars, mic, micLog, streamVars, sendVars, ws, conn, ws_lock, session_active, allow_mic_input,
                   full_response_text, audio_buffer, follow_up_expected,
                   saw_follow_up_call, turn_had_speech, first_text,
                   kickoff_first_turn_done,
                   last_activity, user_spoke_after_assistant, queueVars,
                   playback_done_event, wants_follow_up, attempt, ssRet, pcT,
                   workerVars, buttonVars, wakeVars, micVars, srv, turns,
                   nAudio, nText, toolSent, clipExists, obsVars>>

\* The remote service's next event of the given type.  A turn is a
\* response.created, then audio and transcript deltas and at most one
\* follow_up_intent call in any order, then response.done.
ServerSends(type) ==
    /\ conn = "open"
    /\ IF type = "created"
       THEN srv = "idle" /\ turns < env.turns
       ELSE srv = "turn"
    /\ type = "audio" => nAudio < env.chunks
    /\ type = "tdelta" => nText < env.deltas
    /\ type \in {"tool", "adelta"} => ~toolSent
    /\ type = "done" =>
          \A c \in DOMAIN srvCalls : srvCalls[c].sent > 0 => srvCalls[c].done
    /\ srv' = IF type = "done" THEN "idle" ELSE "turn"
    /\ turns' = IF type = "created" THEN turns + 1 ELSE turns
    /\ nAudio' = IF type = "audio" THEN nAudio + 1 ELSE nAudio
    /\ nText' = IF type = "tdelta" THEN nText + 1 ELSE nText
    /\ toolSent' = (toolSent \/ (type = "tool" /\
                       Cardinality({c \in DOMAIN srvCalls : ~srvCalls[c].done}) = 1))

MessageTypes == {"created", "audio", "tdelta", "adelta", "tool", "done"}

\* lines 1240-1244: a message arrives after the session was marked inactive
run_stream_break ==
    /\ pcE = "recv"
    /\ ~session_active
    /\ \E type \in MessageTypes : ServerSends(type)
    /\ trace' = Log(trace, intrObserved, "loop_exit")
    /\ pcE' = "finally"
    /\ UNCHANGED <<cfgVars, extVars, sessVars, queueVars, playback_done_event,
                   wants_follow_up, attempt, ssRet, pcT, workerVars, buttonVars,
                   wakeVars, micVars, clipExists,
                   micFails, enqueued, joinSnap, joinReturned, saves,
                   doneProcessed,
                   intrObserved, turnOpen>>

\* lines 1240 and 1257-1259: the iteration over the connection ends because
\* the connection is closed; an abnormal close raises and clears the flag.
run_stream_closed ==
    /\ pcE = "recv"
    /\ IF conn = "open"
       THEN \E kind \in {"closed_ok", "closed_err"} : conn' = kind
       ELSE UNCHANGED conn
    /\ session_active' = (session_active /\ conn' = "closed_ok")
    /\ trace' = Log(trace, intrObserved, "loop_exit")
    /\ pcE' = "finally"
    /\ UNCHANGED <<cfgVars, extVars, ws, ws_lock, allow_mic_input, mic_running,
                   full_response_text, audio_buffer, follow_up_expected,
                   saw_follow_up_call, turn_had_speech, first_text,
                   kickoff_first_turn_done,
                   last_activity, user_spoke_after_assistant, queueVars,
                   playback_done_event, wants_follow_up, attempt, ssRet, pcT,
                   workerVars, buttonVars, wakeVars, micVars, envVars, enqueued,
                   joinSnap, joinReturned, saves, doneProcessed, intrObserved,
                   turnOpen>>

\* The main task awaits the next message, the message arrives and the
\* session is active (lines 1240-1255; handle_message, lines 1273-1304).
Receives(type) ==
    /\ pcE = "recv"
    /\ session_active
    /\ ServerSends(type)

\* _on_response_created, lines 474-481
on_response_created ==
    /\ Receives("created")
    /\ turn_had_speech' = FALSE
    /\ follow_up_expected' = FALSE
    /\ saw_follow_up_call' = "no"
    /\ turnOpen' = TRUE
    /\ doneProcessed' = FALSE
    /\ active_transcript_stream' = NoneVal
    /\ tdeltas' = <<>>
    /\ textAtCreated' = full_response_text
    /\ UNCHANGED <<cfgVars, pcP, session_threads, session_start_lock, idle_check, outbox, playback_thread, alive_workers, pcS,
                   mic_stream, micOps, pcM, stop_requested, toolVars, retryVars, sendVars, ws, conn, ws_lock, session_active, allow_mic_input,
                   mic_running, full_response_text, audio_buffer, first_text,
                   kickoff_first_turn_done, last_activity,
                   user_spoke_after_assistant, queueVars, playback_done_event,
                   mainVars, pcT, workerVars, buttonVars, wakeVars, micVars,
                   clipExists, micFails, enqueued,
                   joinSnap, joinReturned, saves, intrObserved, trace>>

\* A handler that takes the deltas of both streams.
AnyStreamAccepted(active, stream) == TRUE

\* _on_transcript_delta, lines 527-530: the delta is taken when no stream
\* is selected yet or its stream is the selected one.
StreamAccepted(active, stream) == active = NoneVal \/ stream = active

\* _on_transcript_delta, lines 519-542.  The event type gives the stream:
\* "audio" for the audio-transcript types, "text" for response.text.delta.
on_transcript_delta ==
    /\ Receives("tdelta")
    /\ \E stream \in env.streams, delta \in DeltaTexts :
          /\ tdeltas' = Append(tdeltas, [stream |-> stream, delta |-> delta])
          /\ IF StreamAccepted(active_transcript_stream, stream)
             THEN /\ active_transcript_stream' = stream
                  /\ turn_had_speech' = TRUE
                  /\ allow_mic_input' = FALSE
                  /\ first_text' = FALSE
                  /\ user_spoke_after_assistant' =
                        (user_spoke_after_assistant /\ ~first_text)
                  /\ full_response_text' = full_response_text \o delta
             ELSE UNCHANGED <<active_transcript_stream, turn_had_speech,
                              allow_mic_input, first_text,
                              user_spoke_after_assistant, full_response_text>>
    /\ UNCHANGED <<cfgVars, pcP, session_threads, session_start_lock, idle_check, outbox, playback_thread, alive_workers, pcS,
                   mic_stream, micOps, pcM, stop_requested, toolVars, retryVars, sendVars, textAtCreated, ws, conn,
                   ws_lock,
                   session_active, mic_running,
                   audio_buffer, follow_up_expected, saw_follow_up_call,
                   kickoff_first_turn_done, last_activity, queueVars,
                   playback_done_event, mainVars, pcT, workerVars, buttonVars,
                   wakeVars, micVars, clipExists, micFails, obsVars>>

\* _on_tool_args_delta, lines 544-548: the text of the delta is appended to
\* the buffer kept under the tool's name.
on_tool_args_delta ==
    /\ Receives("adelta")
    /\ \E c \in DOMAIN srvCalls, name \in env.tools, says \in env.argTexts :
          /\ ~srvCalls[c].done
          /\ srvCalls[c].sent < env.argDeltas
          /\ srvCalls[c].sent > 0 =>
                (name = srvCalls[c].name /\ says = srvCalls[c].says)
          /\ srvCalls' = [srvCalls EXCEPT ![c] =
                             [name |-> name, says |-> says,
                              sent |-> @.sent + 1, done |-> FALSE]]
          /\ tool_args_buffer' =
                [tool_args_buffer EXCEPT ![name] = @ \o <<Piece(c, srvCalls[c].sent + 1)>>]
    /\ UNCHANGED <<cfgVars, pcP, session_threads, session_start_lock, idle_check, outbox, playback_thread, alive_workers, pcS,
                   mic_stream, micOps, pcM, stop_requested, retryVars, streamVars, sendVars, dispatched,
                   handlerRaised, ws,
                   conn, ws_lock,
                   session_active, allow_mic_input, mic_running,
                   full_response_text, audio_buffer, follow_up_expected,
                   saw_follow_up_call, turn_had_speech, first_text,
                   kickoff_first_turn_done, last_activity,
                   user_spoke_after_assistant, queueVars, playback_done_event,
                   mainVars, pcT, workerVars, buttonVars, wakeVars, micVars,
                   clipExists, micFails, obsVars>>

\* _on_tool_args_done, lines 766-796, with _handle_follow_up_intent (lines
\* 550-563) and the beginning of _handle_play_song (675-680).  The argument
\* text is the event's "arguments" field or, without one, the buffer popped
\* under the tool's name.  follow_up_intent catches a parse error; in the
\* other handlers json.loads raises, the exception leaves handle_message and
\* run_stream's except clause clears session_active (lines 1257-1259).
on_tool_args_done ==
    /\ Receives("tool")
    /\ \E c \in DOMAIN srvCalls, name \in env.tools, says \in env.argTexts,
          carries \in env.doneCarriesArgs, has_id \in env.callIds :
          /\ ~srvCalls[c].done
          /\ srvCalls[c].sent > 0 =>
                (name = srvCalls[c].name /\ says = srvCalls[c].says)
          /\ (srvCalls[c].sent = 0 /\ ~carries) => says = "empty"
          /\ LET calls == [srvCalls EXCEPT ![c] =
                              [name |-> name, says |-> says,
                               sent |-> @.sent, done |-> TRUE]]
                 raw_args == IF carries THEN WholeArgs(c)
                             ELSE tool_args_buffer[name]
                 args == json_loads(raw_args, calls)
             IN  /\ srvCalls' = calls
                 /\ tool_args_buffer' =
                       IF carries THEN tool_args_buffer
                       ELSE [tool_args_buffer EXCEPT ![name] = <<>>]
                 /\ dispatched' = Append(dispatched,
                                         [call |-> c, name |-> name,
                                          raw_args |-> raw_args])
                 /\ IF name = "follow_up_intent"
                    THEN /\ follow_up_expected' = (args = "expects")
                         /\ saw_follow_up_call' = "yes"
                         /\ UNCHANGED <<session_active, pcE, handlerRaised,
                                        trace, outbox, ssRet>>
                    ELSE IF name \in ToolHandlers /\ args = "error"
                    THEN /\ handlerRaised' = TRUE
                         /\ session_active' = FALSE
                         /\ pcE' = "finally"
                         /\ trace' = Log(trace, intrObserved, "loop_exit")
                         /\ UNCHANGED <<follow_up_expected, saw_follow_up_call,
                                        outbox, ssRet>>
                    ELSE IF name = "play_song" /\ args = "song"
                    THEN \* _handle_play_song, lines 678-680: stop_session
                         \* is called first
                         /\ ssRet' = "song_return"
                         /\ pcE' = "ss_begin"
                         /\ UNCHANGED <<follow_up_expected, saw_follow_up_call,
                                        session_active, handlerRaised, trace,
                                        outbox>>
                    ELSE IF name \in ToolHandlers \ {"play_song"}
                              /\ args # "empty"
                    THEN \* a continuing handler with something to say: its
                         \* sends up to the function result, then the sleep
                         \* of 0.1 s; without a call id all its sends
                         /\ ws_lock = "free"
                         /\ LET sends == HandlerSends(name, has_id)
                                first == IF has_id
                                         THEN SubSeq(sends, 1, Len(sends) - 1)
                                         ELSE sends
                            IN  outbox' = outbox \o
                                   [i \in 1..Len(first) |->
                                        Message(first[i], c, has_id)]
                         /\ pcE' = IF has_id THEN "tool_sleep" ELSE pcE
                         /\ UNCHANGED <<follow_up_expected, saw_follow_up_call,
                                        session_active, handlerRaised, trace,
                                        ssRet>>
                    ELSE UNCHANGED <<follow_up_expected, saw_follow_up_call,
                                     session_active, pcE, handlerRaised, trace,
                                     outbox, ssRet>>
    /\ UNCHANGED <<cfgVars, pcP, session_threads, session_start_lock, idle_check, playback_thread, alive_workers, pcS,
                   mic_stream, micOps, pcM, stop_requested, retryVars, streamVars, sendVars, ws, conn, ws_lock, allow_mic_input,
                   mic_running, full_response_text, audio_buffer, turn_had_speech,
                   first_text, kickoff_first_turn_done, last_activity,
                   user_spoke_after_assistant, queueVars, playback_done_event,
                   wants_follow_up, attempt, pcT, workerVars, buttonVars,
                   wakeVars, micVars, clipExists, micFails, enqueued, joinSnap,
                   joinReturned, saves, doneProcessed, intrObserved, turnOpen>>

\* _handle_play_song after its sleep (lines 681-682): audio.play_song.
\* reset_for_new_song (audio.py 387-401) clears the deque of the queue and
\* the event; the count of unfinished tasks is the queue's own and is left
\* as it is.  play_song makes sure the worker runs (line 466), puts the
\* chunks of the song (one here) and calls playback_queue.join() (line 536).
play_song ==
    /\ pcE = "song_sleep"
    /\ playback_done_event' = FALSE
    /\ worker_alive' = TRUE
    /\ playback_queue' = Put(<<>>, SongChunk)
    /\ unfinished_tasks' = unfinished_tasks + 1
    /\ enqueued' = enqueued \cup {SongChunk}
    /\ pcE' = "song_join"
    /\ UNCHANGED <<cfgVars, extVars, sessVars, wants_follow_up, attempt, ssRet,
                   pcT, pcW, item, sink, buttonVars, wakeVars, micVars, envVars,
                   joinSnap, joinReturned, saves, doneProcessed, intrObserved,
                   turnOpen, trace>>

\* audio.py lines 536-544: join() has returned; what follows raises and is
\* caught inside play_song, and the handler returns to run_stream's loop.
play_song_joined ==
    /\ pcE = "song_join"
    /\ JoinReady
    /\ pcE' = "recv"
    /\ UNCHANGED <<cfgVars, extVars, sessVars, queueVars, playback_done_event,
                   wants_follow_up, attempt, ssRet, pcT, workerVars, buttonVars,
                   wakeVars, micVars, envVars, obsVars>>

\* The rest of a continuing handler after its sleep (lines 665, 724, 751,
\* 1625 and 1874): the last message of the handler is sent under ws_lock
\* when the connection is still there, and the main task goes on to await
\* the next event.
tool_handler_follow_up ==
    /\ pcE = "tool_sleep"
    /\ ws_lock = "free"
    /\ LET last == outbox[Len(outbox)]
           sends == HandlerSends(dispatched[Len(dispatched)].name, last.id)
       IN  outbox' = IF ws # NoneVal
                     THEN Append(outbox,
                                 Message(sends[Len(sends)], last.call, last.id))
                     ELSE outbox
    /\ pcE' = "recv"
    /\ UNCHANGED <<cfgVars, pcP, session_threads, session_start_lock, idle_check, toolVars, retryVars, streamVars, sendVars, pcM, stop_requested,
                   mic_stream, micOps, playback_thread, alive_workers, pcS,
                   sessVars, queueVars, playback_done_event, wants_follow_up,
                   attempt, ssRet, pcT, workerVars, buttonVars, wakeVars,
                   micVars, envVars, obsVars>>

\* _on_audio_out, lines 498-504: buffer the chunk and put it on the queue;
\* under TEXT_ONLY_MODE the handler returns at once (line 496)
on_audio_out ==
    /\ Receives("audio")
    /\ IF env.textOnly
       THEN UNCHANGED <<turn_had_speech, audio_buffer, last_activity,
                        playback_queue, unfinished_tasks, enqueued, pcE>>
       ELSE /\ turn_had_speech' = TRUE
            /\ audio_buffer' = audio_buffer + 1
            /\ last_activity' = "audio"
            /\ playback_queue' = Put(playback_queue, (nAudio + 1))
            /\ unfinished_tasks' = unfinished_tasks + 1
            /\ enqueued' = enqueued \cup {(nAudio + 1)}
            /\ pcE' = "ao_check"
    /\ UNCHANGED <<cfgVars, extVars, ws, conn, ws_lock, session_active, allow_mic_input,
                   mic_running, full_response_text, follow_up_expected,
                   saw_follow_up_call, first_text, kickoff_first_turn_done,
                   user_spoke_after_assistant, playback_done_event,
                   wants_follow_up, attempt, ssRet, pcT, workerVars, buttonVars,
                   wakeVars, micVars, clipExists, micFails, joinSnap,
                   joinReturned, saves,
                   doneProcessed, intrObserved, turnOpen, trace>>

\* line 506: if self.interrupt_event.is_set()
on_audio_out_check ==
    /\ pcE = "ao_check"
    /\ intrObserved' = (intrObserved \/ interrupt_event)
    /\ pcE' = IF interrupt_event THEN "ao_drain" ELSE "recv"
    /\ UNCHANGED <<cfgVars, extVars, sessVars, queueVars, playback_done_event,
                   wants_follow_up, attempt, ssRet, pcT, workerVars, buttonVars,
                   wakeVars, micVars, envVars, enqueued, joinSnap, joinReturned,
                   saves, doneProcessed, turnOpen, trace>>

\* lines 510-515: one pass of the drain loop, get_nowait and task_done
on_audio_out_drain ==
    /\ pcE = "ao_drain"
    /\ IF playback_queue = <<>>
       THEN /\ pcE' = "ao_clear"
            /\ trace' = Log(trace, intrObserved, "flush")
            /\ UNCHANGED queueVars
       ELSE /\ playback_queue' = Tail(playback_queue)
            /\ unfinished_tasks' = TaskDone(unfinished_tasks)
            /\ UNCHANGED <<pcE, trace>>
    /\ UNCHANGED <<cfgVars, extVars, sessVars, playback_done_event, wants_follow_up,
                   attempt,
                   ssRet, pcT, workerVars, buttonVars, wakeVars, micVars,
                   envVars,
                   enqueued, joinSnap, joinReturned, saves, doneProcessed,
                   intrObserved, turnOpen>>

\* line 516: self.session_active.clear()
on_audio_out_clear_active ==
    /\ pcE = "ao_clear"
    /\ session_active' = FALSE
    /\ trace' = Log(trace, intrObserved, "inactive")
    /\ pcE' = "ao_intr"
    /\ UNCHANGED <<cfgVars, extVars, ws, conn, ws_lock, allow_mic_input, mic_running,
                   full_response_text, audio_buffer, follow_up_expected,
                   saw_follow_up_call, turn_had_speech, first_text,
                   kickoff_first_turn_done,
                   last_activity, user_spoke_after_assistant, queueVars,
                   playback_done_event, wants_follow_up, attempt, ssRet, pcT,
                   workerVars, buttonVars, wakeVars, micVars, envVars, enqueued,
                   joinSnap, joinReturned, saves, doneProcessed, intrObserved,
                   turnOpen>>

\* line 517: self.interrupt_event.clear()
on_audio_out_clear_interrupt ==
    /\ pcE = "ao_intr"
    /\ interrupt_event' = FALSE
    /\ trace' = Log(trace, intrObserved, "intr_clear")
    /\ pcE' = "recv"
    /\ UNCHANGED <<cfgVars, extVars, sessVars, queueVars, playback_done_event,
                   wants_follow_up, attempt, ssRet, pcT, workerVars, pcB,
                   is_active,
                   flushSnap, flushBegun, intrSpeaking, wakeVars, micVars,
                   envVars,
                   enqueued, joinSnap, joinReturned, saves, doneProcessed,
                   intrObserved, turnOpen>>


\* _on_response_done, lines 798-808: wait for the playback queue to drain;
\* under TEXT_ONLY_MODE the handler goes on to the kickoff switch at once
on_response_done ==
    /\ Receives("done")
    /\ IF env.textOnly
       THEN pcE' = "rd_switch" /\ UNCHANGED <<joinSnap, joinReturned>>
       ELSE /\ joinSnap' = enqueued
            /\ joinReturned' = FALSE
            /\ pcE' = "rd_join"
    /\ turnOpen' = FALSE
    /\ UNCHANGED <<cfgVars, extVars, sessVars, queueVars, playback_done_event,
                   wants_follow_up, attempt, ssRet, pcT, workerVars, buttonVars,
                   wakeVars, micVars, clipExists,
                   micFails, enqueued, saves, doneProcessed, intrObserved,
                   trace>>

\* line 808: playback_queue.join() returns; line 809: asyncio.sleep(1)
on_response_done_joined ==
    /\ pcE = "rd_join"
    /\ JoinReady
    /\ joinReturned' = TRUE
    /\ pcE' = "rd_sleep"
    /\ UNCHANGED <<cfgVars, extVars, sessVars, queueVars, playback_done_event,
                   wants_follow_up, attempt, ssRet, pcT, workerVars, buttonVars,
                   wakeVars, micVars, envVars, enqueued, joinSnap, saves,
                   doneProcessed, intrObserved, turnOpen, trace>>

\* The one-shot switch that ends _on_response_done, lines 846-848.
DoryNext == IF run_mode = "dory" THEN "ss_begin" ELSE "recv"

\* lines 810-848: save the turn's audio, reopen the mic gate, then the
\* kickoff follow-up switch and the one-shot switch.  The first part, down
\* to line 820, is under `if not TEXT_ONLY_MODE`.
on_response_done_finish ==
    /\ pcE \in {"rd_sleep", "rd_switch"}
    /\ IF pcE = "rd_sleep"
       THEN /\ saves' = IF audio_buffer > 0 THEN saves + 1 ELSE saves
            /\ audio_buffer' = 0
            /\ playback_done_event' = TRUE
            /\ last_activity' = "done"
            /\ allow_mic_input' = TRUE
       ELSE UNCHANGED <<saves, audio_buffer, playback_done_event,
                        last_activity, allow_mic_input>>
    /\ ssRet' = "handler_return"
    /\ IF kickoff_text # NoneVal /\ ~kickoff_first_turn_done /\ turn_had_speech
       THEN /\ kickoff_first_turn_done' = TRUE
            /\ IF kickoff_to_interactive
               THEN /\ start_mic
                    /\ pcE' = DoryNext
                    /\ doneProcessed' = (doneProcessed \/ run_mode # "dory")
                    /\ UNCHANGED <<wants_follow_up, attempt>>
               ELSE IF autofollowup = "auto"
                    THEN /\ wants_follow_up' =
                               (follow_up_expected
                                  \/ wants_follow_up_heuristic(full_response_text))
                         /\ IF wants_follow_up'
                            THEN /\ attempt' = 1
                                 /\ pcE' = "smap_rd"
                                 /\ UNCHANGED doneProcessed
                            ELSE /\ pcE' = DoryNext
                                 /\ doneProcessed' = (doneProcessed \/ run_mode # "dory")
                                 /\ UNCHANGED attempt
                         /\ UNCHANGED <<mic_running, micFails, pcR, delay_i>>
                    ELSE /\ pcE' = DoryNext
                         /\ doneProcessed' = (doneProcessed \/ run_mode # "dory")
                         /\ UNCHANGED <<mic_running, micFails, pcR, delay_i,
                                        wants_follow_up,
                                        attempt>>
       ELSE /\ pcE' = DoryNext
            /\ doneProcessed' = (doneProcessed \/ run_mode # "dory")
            /\ UNCHANGED <<kickoff_first_turn_done, mic_running, micFails,
                           pcR, delay_i,
                           wants_follow_up, attempt>>
    /\ UNCHANGED <<cfgVars, pcP, session_threads, session_start_lock, idle_check, outbox, playback_thread, alive_workers, pcS,
                   mic_stream, micOps, pcM, stop_requested, toolVars, mic, micLog, streamVars, sendVars, ws, conn, ws_lock, session_active,
                   full_response_text,
                   follow_up_expected, saw_follow_up_call, turn_had_speech,
                   first_text, user_spoke_after_assistant, queueVars, pcT,
                   workerVars, buttonVars, wakeVars, micVars, srv, turns,
                   nAudio, nText, toolSent, clipExists, enqueued, joinSnap,
                   joinReturned, intrObserved, turnOpen, trace>>

\* _start_mic_after_playback, lines 982-1042: one attempt of the loop.  The
\* attempts after the first begin with a sleep.  A running mic is stopped
\* first; the open may be refused, and the third refusal gives up.
start_mic_after_playback ==
    /\ pcE \in {"smap_rd", "smap_prh"}
    /\ \E ok \in MicOutcomes :
          /\ mic_running' = ok
          /\ micFails' = IF ok THEN micFails ELSE micFails + 1
          /\ IF ok \/ attempt = MicOpenRetries
             THEN /\ pcE' = IF pcE = "smap_rd" THEN "rd_mic" ELSE "prh_follow"
                  /\ attempt' = 0
             ELSE /\ attempt' = attempt + 1
                  /\ UNCHANGED pcE
    /\ UNCHANGED <<cfgVars, extVars, ws, conn, ws_lock, session_active, allow_mic_input,
                   full_response_text, audio_buffer, follow_up_expected,
                   saw_follow_up_call, turn_had_speech, first_text,
                   kickoff_first_turn_done, last_activity,
                   user_spoke_after_assistant, queueVars, playback_done_event,
                   wants_follow_up, ssRet, pcT, workerVars, buttonVars,
                   wakeVars,
                   micVars, srv, turns, nAudio, nText, toolSent, clipExists,
                   obsVars>>

\* _on_response_done, lines 836-848, after the mic was reopened
on_response_done_listening ==
    /\ pcE = "rd_mic"
    /\ user_spoke_after_assistant' = FALSE
    /\ last_activity' = "done"
    /\ pcE' = DoryNext
    /\ doneProcessed' = (doneProcessed \/ run_mode # "dory")
    /\ UNCHANGED <<cfgVars, extVars, ws, conn, ws_lock, session_active, allow_mic_input,
                   mic_running, full_response_text, audio_buffer,
                   follow_up_expected, saw_follow_up_call, turn_had_speech,
                   first_text, kickoff_first_turn_done, queueVars,
                   playback_done_event, wants_follow_up, attempt, ssRet, pcT,
                   workerVars, buttonVars, wakeVars, micVars, envVars, enqueued,
                   joinSnap, joinReturned, saves, intrObserved, turnOpen,
                   trace>>

\* run_stream finally, lines 1261-1271: _stop_mic, then
\* post_response_handling up to its first await (lines 1356-1400).
post_response_handling ==
    /\ pcE = "finally"
    /\ mic_running' = FALSE
    /\ trace' = Log(trace, intrObserved, "mic_stop")
    /\ IF ~session_active
       THEN /\ pcE' = CloseOrExit
            /\ ws_lock' = IF CloseOrExit = "prh_closing" THEN "main" ELSE ws_lock
            /\ UNCHANGED <<wants_follow_up, attempt>>
       ELSE IF saw_follow_up_call = "unset"
            THEN \* line 1381 reads an attribute no response.created has set
                 /\ pcE' = "exit"
                 /\ UNCHANGED <<ws_lock, wants_follow_up, attempt>>
            ELSE /\ wants_follow_up' =
                       FollowUpDecision(autofollowup, follow_up_expected,
                                        full_response_text)
                 /\ IF wants_follow_up'
                    THEN /\ pcE' = "smap_prh"
                         /\ attempt' = 1
                         /\ UNCHANGED ws_lock
                    ELSE /\ pcE' = CloseOrExit
                         /\ ws_lock' = IF CloseOrExit = "prh_closing" THEN "main"
                                       ELSE ws_lock
                         /\ UNCHANGED attempt
    /\ UNCHANGED <<cfgVars, extVars, ws, conn, session_active, allow_mic_input,
                   full_response_text, audio_buffer, follow_up_expected,
                   saw_follow_up_call, turn_had_speech, first_text,
                   kickoff_first_turn_done, last_activity,
                   user_spoke_after_assistant, queueVars, playback_done_event,
                   ssRet, pcT, workerVars, buttonVars, wakeVars, micVars,
                   envVars,
                   enqueued, joinSnap, joinReturned, saves, doneProcessed,
                   intrObserved, turnOpen>>

\* lines 1365 and 1409: async with self.ws_lock, once the lock is free
post_response_locked ==
    /\ pcE = "prh_wait"
    /\ ws_lock = "free"
    /\ pcE' = CloseOrExit
    /\ ws_lock' = IF CloseOrExit = "prh_closing" THEN "main" ELSE ws_lock
    /\ UNCHANGED <<cfgVars, extVars, ws, conn, session_active, allow_mic_input,
                   mic_running,
                   full_response_text, audio_buffer, follow_up_expected,
                   saw_follow_up_call, turn_had_speech, first_text,
                   kickoff_first_turn_done, last_activity,
                   user_spoke_after_assistant, queueVars, playback_done_event,
                   wants_follow_up, attempt, ssRet, pcT, workerVars, buttonVars,
                   wakeVars, micVars, envVars, obsVars>>

\* lines 1366-1369 and 1410-1413: close, wait_closed, self.ws = None
post_response_closed ==
    /\ pcE = "prh_closing"
    /\ CloseReturns
    /\ ws' = NoneVal
    /\ conn' = IF conn = "open" THEN "closed_ok" ELSE conn
    /\ ws_lock' = "free"
    /\ trace' = Log(trace, intrObserved, "ws_none")
    /\ pcE' = "exit"
    /\ UNCHANGED <<cfgVars, extVars, session_active, allow_mic_input, mic_running,
                   full_response_text, audio_buffer, follow_up_expected,
                   saw_follow_up_call, turn_had_speech, first_text,
                   kickoff_first_turn_done, last_activity,
                   user_spoke_after_assistant, queueVars, playback_done_event,
                   wants_follow_up, attempt, ssRet, pcT, workerVars, buttonVars,
                   wakeVars, micVars, envVars, enqueued, joinSnap, joinReturned,
                   saves, doneProcessed, intrObserved, turnOpen>>

\* lines 1401-1404: the follow-up branch after the mic was reopened
post_response_follow_up ==
    /\ pcE = "prh_follow"
    /\ user_spoke_after_assistant' = FALSE
    /\ full_response_text' = <<>>
    /\ last_activity' = "followup"
    /\ pcE' = "exit"
    /\ UNCHANGED <<cfgVars, extVars, ws, conn, ws_lock, session_active, allow_mic_input,
                   mic_running, audio_buffer, follow_up_expected,
                   saw_follow_up_call, turn_had_speech, first_text,
                   kickoff_first_turn_done, queueVars, playback_done_event,
                   wants_follow_up, attempt, ssRet, pcT, workerVars, buttonVars,
                   wakeVars, micVars, envVars, obsVars>>

\* button.py run_session finally, lines 165-172: start() has returned
run_session_finally ==
    /\ pcE = "exit"
    /\ is_active' = FALSE
    /\ pcE' = "done"
    /\ UNCHANGED <<cfgVars, extVars, sessVars, queueVars, playback_done_event,
                   wants_follow_up, attempt, ssRet, pcT, workerVars, pcB,
                   interrupt_event, flushSnap, flushBegun, intrSpeaking,
                   wakeVars,
                   micVars, envVars, obsVars>>

\* -------------------------------------------- the button's session threads
\* A session thread the button started is taken as a whole here: it runs
\* asyncio.run(session.start()) for as long as that takes, then the finally
\* clause of run_session, then it ends.
Alive(threads) == {k \in DOMAIN threads : threads[k] # "finished"}

\* on_button, lines 92-93: a press (past the debounce) reads is_active
on_button_read ==
    /\ pcP = "idle"
    /\ pcP' = IF is_active THEN "interrupt" ELSE "acquire"
    /\ UNCHANGED <<cfgVars, toolVars, retryVars, streamVars, sendVars, pcM,
                   stop_requested, mic_stream, micOps, playback_thread,
                   alive_workers, pcS, outbox, idle_check,
                   session_start_lock, session_threads, sessVars, queueVars,
                   playback_done_event, mainVars, pcT, workerVars, buttonVars,
                   wakeVars, micVars, envVars, obsVars>>

\* on_button, lines 93-124: the press during an active session sets the
\* interrupt event, flushes the playback queue (stop_playback, audio.py
\* 369-377), has the session stopped and waits for it and for the thread,
\* each wait with a timeout, and clears is_active whatever the thread did.
on_button_interrupts ==
    /\ pcP = "interrupt"
    /\ interrupt_event' = TRUE
    /\ playback_queue' = <<>>
    /\ unfinished_tasks' = unfinished_tasks - Len(playback_queue)
    /\ playback_done_event' = TRUE
    /\ is_active' = FALSE
    /\ pcP' = "idle"
    /\ UNCHANGED <<cfgVars, toolVars, retryVars, streamVars, sendVars, pcM,
                   stop_requested, mic_stream, micOps, playback_thread,
                   alive_workers, pcS, outbox, idle_check,
                   session_start_lock, session_threads, sessVars, mainVars, pcT,
                   workerVars, pcB, flushSnap, flushBegun, intrSpeaking,
                   wakeVars, micVars, envVars, obsVars>>

\* The press that skips the check of the previous thread.
on_button_acquire_unchecked ==
    /\ pcP = "acquire"
    /\ Len(session_threads) < MaxSessionThreads
    /\ IF session_start_lock
       THEN pcP' = "idle" /\ UNCHANGED session_start_lock
       ELSE session_start_lock' = TRUE /\ pcP' = "start"
    /\ UNCHANGED <<cfgVars, toolVars, retryVars, streamVars, sendVars, pcM,
                   stop_requested, mic_stream, micOps, playback_thread,
                   alive_workers, pcS, outbox, idle_check,
                   session_threads, sessVars, queueVars,
                   playback_done_event, mainVars, pcT, workerVars, buttonVars,
                   wakeVars, micVars, envVars, obsVars>>

\* on_button, lines 127-133: _session_start_lock.acquire(blocking=False);
\* the press is ignored when the lock is held.  With the lock, a previous
\* thread that is still alive is joined.
on_button_acquire ==
    /\ pcP = "acquire"
    /\ Len(session_threads) < MaxSessionThreads
    /\ IF session_start_lock
       THEN pcP' = "idle" /\ UNCHANGED session_start_lock
       ELSE /\ session_start_lock' = TRUE
            /\ pcP' = IF Len(session_threads) \in Alive(session_threads)
                      THEN "join" ELSE "start"
    /\ UNCHANGED <<cfgVars, toolVars, retryVars, streamVars, sendVars, pcM,
                   stop_requested, mic_stream, micOps, playback_thread,
                   alive_workers, pcS, outbox, idle_check,
                   session_threads, sessVars, queueVars,
                   playback_done_event, mainVars, pcT, workerVars, buttonVars,
                   wakeVars, micVars, envVars, obsVars>>

\* on_button, lines 135-143: session_thread.join(timeout=2.0) returns, when
\* the thread has ended or after two seconds; with the thread still alive
\* the lock is released and the press starts nothing.
on_button_joined ==
    /\ pcP = "join"
    /\ IF Len(session_threads) \in Alive(session_threads)
       THEN session_start_lock' = FALSE /\ pcP' = "idle"
       ELSE pcP' = "start" /\ UNCHANGED session_start_lock
    /\ UNCHANGED <<cfgVars, toolVars, retryVars, streamVars, sendVars, pcM,
                   stop_requested, mic_stream, micOps, playback_thread,
                   alive_workers, pcS, outbox, idle_check,
                   session_threads, sessVars, queueVars,
                   playback_done_event, mainVars, pcT, workerVars, buttonVars,
                   wakeVars, micVars, envVars, obsVars>>

\* on_button, lines 145-174: the worker is made to run, the event cleared
\* for the wake-up clip, is_active set, a fresh interrupt event made and
\* the session thread started; the lock stays held for the thread.
on_button_starts ==
    /\ pcP = "start"
    /\ worker_alive' = TRUE
    /\ playback_done_event' = FALSE
    /\ is_active' = TRUE
    /\ interrupt_event' = FALSE
    /\ session_threads' = Append(session_threads, "running")
    /\ pcP' = "idle"
    /\ UNCHANGED <<cfgVars, toolVars, retryVars, streamVars, sendVars, pcM,
                   stop_requested, mic_stream, micOps, playback_thread,
                   alive_workers, pcS, outbox, idle_check,
                   session_start_lock, sessVars, queueVars, mainVars, pcT, pcW,
                   item, sink, pcB, flushSnap, flushBegun, intrSpeaking,
                   wakeVars, micVars, envVars, obsVars>>

\* run_session, lines 165-172: start() has returned or raised in thread k;
\* the finally clause clears is_active and then releases the lock.
session_thread_finally ==
    /\ \E k \in DOMAIN session_threads :
          \/ /\ session_threads[k] = "running"
             /\ session_threads' = [session_threads EXCEPT ![k] = "cleared"]
             /\ is_active' = FALSE
             /\ UNCHANGED session_start_lock
          \/ /\ session_threads[k] = "cleared"
             /\ session_threads' = [session_threads EXCEPT ![k] = "released"]
             /\ session_start_lock' = FALSE
             /\ UNCHANGED is_active
    /\ UNCHANGED <<cfgVars, toolVars, retryVars, streamVars, sendVars, pcM,
                   stop_requested, mic_stream, micOps, playback_thread,
                   alive_workers, pcS, outbox, idle_check,
                   pcP, sessVars, queueVars, playback_done_event, mainVars, pcT,
                   workerVars, pcB, interrupt_event, flushSnap, flushBegun,
                   intrSpeaking, wakeVars, micVars, envVars, obsVars>>

\* The thread ends after the finally clause of run_session.
session_thread_ends ==
    /\ \E k \in DOMAIN session_threads :
          /\ session_threads[k] = "released"
          /\ session_threads' = [session_threads EXCEPT ![k] = "finished"]
    /\ UNCHANGED <<cfgVars, toolVars, retryVars, streamVars, sendVars, pcM,
                   stop_requested, mic_stream, micOps, playback_thread,
                   alive_workers, pcS, outbox, idle_check,
                   session_start_lock, pcP, sessVars, queueVars,
                   playback_done_event, mainVars, pcT, workerVars, buttonVars,
                   wakeVars, micVars, envVars, obsVars>>

\* ------------------------------------------------------------ retry task
\* _retry_mic_loop, lines 896-900 and 956-959: the head of an iteration.  The
\* loop ends when the delays are used up or the session is no longer active;
\* else it sleeps for the delay.  The head is reached when the task first
\* runs, and after a refused attempt, at once or after the awaits of the
\* audio reset (lines 924-950).
retry_mic_loop ==
    /\ pcR = "check"
    /\ LoopIdle
    /\ pcR' = IF delay_i > Len(delays) \/ ~session_active THEN "done" ELSE "sleep"
    /\ UNCHANGED <<cfgVars, pcP, session_threads, session_start_lock, idle_check, outbox, playback_thread, alive_workers, pcS,
                   mic_stream, micOps, pcM, stop_requested, toolVars, streamVars, sendVars, mic, delay_i, micLog,
                   sessVars,
                   queueVars,
                   playback_done_event, mainVars, pcT, workerVars, buttonVars,
                   wakeVars, micVars, envVars, obsVars>>

\* lines 902-920: after the sleep a new MicManager replaces the old one and
\* is started; on success the loop returns, on refusal it goes on.
retry_mic_loop_attempt ==
    /\ pcR = "sleep"
    /\ LoopIdle
    /\ mic' = mic + 1
    /\ \E ok \in MicOutcomes :
          /\ mic_running' = ok
          /\ micFails' = IF ok THEN micFails ELSE micFails + 1
          /\ micLog' = Append(micLog, [delay |-> delays[delay_i], mic |-> mic',
                                       ok |-> ok])
          /\ pcR' = IF ok THEN "done" ELSE "check"
          /\ delay_i' = IF ok THEN delay_i ELSE delay_i + 1
    /\ UNCHANGED <<cfgVars, pcP, session_threads, session_start_lock, idle_check, outbox, playback_thread, alive_workers, pcS,
                   mic_stream, micOps, pcM, stop_requested, toolVars, streamVars, sendVars, ws, conn, ws_lock,
                   session_active,
                   allow_mic_input, full_response_text, audio_buffer,
                   follow_up_expected, saw_follow_up_call, turn_had_speech,
                   first_text, kickoff_first_turn_done, last_activity,
                   user_spoke_after_assistant, queueVars, playback_done_event,
                   mainVars, pcT, workerVars, buttonVars, wakeVars, micVars,
                   srv, turns, nAudio, nText, toolSent, clipExists, obsVars>>

\* ============================================================ specification
\* The session thread's main task: start(), run_stream and the handlers.
MainNext ==
    \/ start \/ start_connect \/ play_error_sound \/ play_error_sound_join
    \/ stop_session \/ stop_session_closed
    \/ run_stream \/ run_stream_closed
    \/ on_response_created \/ on_transcript_delta \/ on_tool_args_done
    \/ on_audio_out \/ on_audio_out_check
    \/ on_response_done \/ on_response_done_joined \/ on_response_done_finish
    \/ start_mic_after_playback
    \/ post_response_handling \/ post_response_closed
    \/ post_response_follow_up \/ run_session_finally

\* The main task's step that only a kickoff session takes.
KickoffNext == on_response_done_listening

\* The main task's steps that follow an interrupt or a concurrent
\* stop_session.
InterruptedNext ==
    \/ on_audio_out_drain \/ on_audio_out_clear_active
    \/ on_audio_out_clear_interrupt \/ run_stream_break
    \/ stop_session_locked \/ post_response_locked

StopTaskNext ==
    stop_session_task \/ stop_session_task_locked \/ stop_session_task_closed

WorkerNext == playback_worker_get \/ playback_worker_write

WakeUpNext == wake_up_read_pending \/ wake_up_enqueue \/ wake_up_done

ButtonNext == on_button \/ stop_playback \/ on_button_schedule \/ on_button_result

\* The handler of the events only a tool scenario has.
ToolNext == on_tool_args_delta

MicNext == mic_callback \/ send_mic_audio_coroutine

\* The failure of the playback worker.
WorkerFailNext == playback_worker_fail

\* The mic retry task.
RetryNext == retry_mic_loop \/ retry_mic_loop_attempt

\* The whole system.
Next ==
    \/ MainNext \/ KickoffNext \/ InterruptedNext \/ StopTaskNext \/ WorkerNext
    \/ WakeUpNext \/ ButtonNext \/ MicNext \/ ToolNext \/ RetryNext
    \/ WorkerFailNext
    \/ mic_timeout_checker \/ mic_timeout_checker_locked
    \/ mic_timeout_checker_closed \/ request_stop
    \/ mic_manager_start \/ mic_manager_stop
    \/ ensure_playback_worker_started \/ ensure_playback_worker_assign
    \/ ensure_playback_worker_start \/ tool_handler_follow_up
    \/ mic_timeout_iteration \/ play_song \/ play_song_joined
    \/ on_button_read \/ on_button_interrupts \/ on_button_acquire
    \/ on_button_joined \/ on_button_starts \/ session_thread_finally
    \/ session_thread_ends

Spec == Init /\ [][Next]_vars

\* A session that no button press interrupts: the session thread's main
\* task, the playback worker and the mic callback.
SessionNext == MainNext \/ KickoffNext \/ WorkerNext \/ MicNext \/ RetryNext

SessionSpec == SessionInit /\ [][SessionNext]_vars

\* The same session with an input device that stays busy.
MicRetrySpec == MicRetryInit /\ [][SessionNext]_vars

\* A button session in which the service calls tools: the main task and the
\* playback worker.
ToolSessionNext == MainNext \/ ToolNext \/ WorkerNext

ToolSpec == ToolInit /\ [][ToolSessionNext]_vars

\* A session whose output device may fail a write.
BrokenSinkSpec == BrokenSinkInit /\ [][SessionNext \/ WorkerFailNext]_vars

\* A button session with transcripts in two streams.
StreamSpec == StreamInit /\ [][MainNext \/ WorkerNext]_vars

\* A button session of several turns.
TurnsSpec == TurnsInit /\ [][ToolSessionNext]_vars

\* A button session that begins while its wake-up clip thread runs.
WakeUpSessionNext == MainNext \/ WorkerNext \/ WakeUpNext

WakeUpSpec == WakeUpInit /\ [][WakeUpSessionNext]_vars

\* A button session with its idle watchdog; the service may stay silent for
\* any time between two messages.
WatchdogSpec ==
    InterruptInit /\ [][\/ MainNext \/ WorkerNext
                         \/ mic_timeout_checker
                         \/ mic_timeout_checker_closed]_vars

\* A MicManager object that is started and stopped in any order, MaxMicOps
\* times at most, its device failing at will.
MicManagerSpec ==
    InterruptInit /\ [][mic_manager_start \/ mic_manager_stop]_vars

\* The button thread and the threads of two say sessions, each making sure
\* once that the playback worker runs.
EnsureWorkerSpec ==
    InterruptInit /\ [][\/ ensure_playback_worker_started
                         \/ ensure_playback_worker_assign
                         \/ ensure_playback_worker_start]_vars

\* A button session, after its wake-up clip, in which the service calls
\* play_song.
SongSpec ==
    /\ env = SongEnv
    /\ \E m \in RunModes : SessionBegins(run_session(m), TRUE)
    /\ [][ToolSessionNext \/ play_song \/ play_song_joined]_vars

\* Button presses and the session threads they start, from the state in
\* which the first press has started the first thread; up to
\* MaxSessionThreads threads.
ButtonStartSpec ==
    /\ InterruptInit
    /\ [][\/ on_button_read \/ on_button_interrupts \/ on_button_acquire
          \/ on_button_joined \/ on_button_starts \/ session_thread_finally
          \/ session_thread_ends]_vars

\* A session under TEXT_ONLY_MODE, with the mic's frames: the steps of
\* SessionNext but those of the audio deltas and of the wait for the
\* playback queue, which such a session does not take.
TextOnlySpec ==
    /\ env = TextOnlyEnv
    /\ \E c \in SessionConfigs : SessionBegins(c, TRUE)
    /\ [][\/ start \/ start_connect \/ play_error_sound \/ play_error_sound_join
          \/ stop_session \/ stop_session_closed
          \/ run_stream \/ run_stream_closed
          \/ on_response_created \/ on_transcript_delta \/ on_tool_args_done
          \/ on_response_done \/ on_response_done_finish
          \/ start_mic_after_playback
          \/ post_response_handling \/ post_response_closed
          \/ post_response_follow_up \/ run_session_finally
          \/ KickoffNext \/ MicNext \/ WorkerNext]_vars

\* Iterations of the idle watchdog's loop while the clock advances up to
\* MaxClock, for every reading of the flags and the timestamps.
IdleCheckSpec == InterruptInit /\ [][mic_timeout_iteration]_vars

\* A session, after its wake-up clip if it is a button session, in which
\* the service calls the tools whose handlers continue the conversation.
ContinueSpec ==
    /\ env = ContinueEnv
    /\ \E c \in SessionConfigs : SessionBegins(c, TRUE)
    /\ [][ToolSessionNext \/ KickoffNext \/ tool_handler_follow_up]_vars

\* A button session and the button thread that interrupts it.
InterruptNext ==
    MainNext \/ InterruptedNext \/ StopTaskNext \/ WorkerNext \/ ButtonNext

InterruptSpec == InterruptInit /\ [][InterruptNext]_vars

\* The steps the main task takes by itself.  A step that waits for the
\* remote service (the next message, the close of an open connection) or for
\* another thread is not among them.
MainOwnNext ==
    \/ start \/ start_connect \/ play_error_sound \/ play_error_sound_join
    \/ stop_session \/ stop_session_locked \/ stop_session_closed
    \/ run_stream \/ (run_stream_closed /\ conn # "open")
    \/ on_audio_out_check \/ on_audio_out_drain \/ on_audio_out_clear_active
    \/ on_audio_out_clear_interrupt
    \/ on_response_done_joined \/ on_response_done_finish
    \/ start_mic_after_playback
    \/ post_response_handling \/ post_response_locked \/ post_response_closed
    \/ post_response_follow_up \/ run_session_finally

\* The button thread once the press has happened.
ButtonOwnNext == stop_playback \/ on_button_schedule \/ on_button_result

\* Every thread that can take a step of its own eventually takes one: the
\* operating system schedules the button thread and the playback worker,
\* and the event loop runs the main task and the scheduled stop_session.
FairInterruptSpec ==
    /\ InterruptSpec
    /\ WF_vars(MainOwnNext)
    /\ WF_vars(StopTaskNext)
    /\ WF_vars(WorkerNext)
    /\ WF_vars(ButtonOwnNext)

\* A button session that may be asked to stop, with its idle watchdog.  The
\* event loop runs every task that can take a step and the operating system
\* schedules the playback worker; the service sends a message when it
\* likes, or never.
FairStopRequestSpec ==
    /\ InterruptInit
    /\ [][\/ MainNext \/ WorkerNext \/ run_stream_break
          \/ mic_timeout_checker \/ mic_timeout_checker_closed
          \/ request_stop]_vars
    /\ WF_vars(MainOwnNext)
    /\ WF_vars(WorkerNext)
    /\ WF_vars(mic_timeout_checker \/ mic_timeout_checker_closed)
    /\ WF_vars(request_stop)

\* The interrupted button session with a service that never completes a
\* close handshake, under the same scheduling.
SilentPeerSpec == SilentPeerInit /\ [][InterruptNext]_vars

FairSilentPeerSpec ==
    /\ SilentPeerSpec
    /\ WF_vars(MainOwnNext)
    /\ WF_vars(StopTaskNext)
    /\ WF_vars(WorkerNext)
    /\ WF_vars(ButtonOwnNext)

\* The session with an input device that stays busy, where the event loop runs every task that can take a step and
\* the operating system schedules the playback worker.
FairMicRetrySpec ==
    /\ MicRetrySpec
    /\ WF_vars(MainOwnNext)
    /\ WF_vars(KickoffNext)
    /\ WF_vars(WorkerNext)
    /\ WF_vars(RetryNext)

\* The uninterrupted session under the same scheduling: the event loop runs
\* the main task and the retry task whenever they can take a step, the
\* operating system schedules the playback worker, and the service sends
\* its next message when it likes, or never.
FairSessionSpec ==
    /\ SessionSpec
    /\ WF_vars(MainOwnNext)
    /\ WF_vars(KickoffNext)
    /\ WF_vars(WorkerNext)
    /\ WF_vars(RetryNext)


\* ===================================================================== C1
\* C1: playback_queue.join(), as awaited in _on_response_done and in
\* _play_error_sound, returns only after the playback worker has written
\* every chunk that was enqueued before the call: whenever the last join
\* has returned, each chunk enqueued before that call is among the chunks
\* written to the output device.
C1_JoinAfterWrites == joinReturned => joinSnap \subseteq sink

\* A join has returned after the turn's chunks and the wake-up clip had been
\* enqueued before it.
C1_Witness ==
    /\ joinReturned
    /\ WakeClip \in joinSnap
    /\ Cardinality(joinSnap) = MaxChunks + 1


\* ===================================================================== C2
\* C2: once stop_playback has begun to flush the queue, the playback worker
\* dequeues no chunk that was enqueued before the flush began (a write in
\* progress when the flush starts may complete, a new one may not start).
C2_NoStaleDequeue ==
    [][(flushBegun /\ pcW = "get" /\ pcW' = "write") => Range(item') \cap flushSnap = {}]_vars


\* ===================================================================== C3
\* C3: when the button is pressed while assistant audio is streaming, the
\* system reaches a state in which the playback queue is empty and
\* session_active is clear, and from then on the queue stays empty: no
\* chunk of the interrupted turn remains queued.
C3_InterruptSettles == intrSpeaking ~> [](playback_queue = <<>> /\ ~session_active)

\* The interrupt came during a turn whose chunks were being enqueued, the
\* button thread has finished and the session has settled.
C3_Witness ==
    /\ intrSpeaking
    /\ intrObserved
    /\ pcB = "done"
    /\ playback_queue = <<>>
    /\ ~session_active


\* ===================================================================== C4
\* The teardown steps in the order they are to happen once _on_audio_out has
\* observed the interrupt.
TeardownOrder == <<"flush", "inactive", "intr_clear", "loop_exit", "mic_stop", "ws_none">>

\* C4: once _on_audio_out has observed the interrupt, the queue is flushed,
\* session_active is cleared, the interrupt is cleared, the message loop
\* exits, the mic is stopped and the connection is closed (ws None), in this
\* order: the steps taken so far are always an initial part of that order,
\* and none is missing when start() has returned.
C4_TeardownInOrder ==
    /\ trace = SubSeq(TeardownOrder, 1, Len(trace))
    /\ (pcE = "done" /\ intrObserved) => trace = TeardownOrder


\* ===================================================================== C5
\* C5: when connecting or sending the initial configuration fails inside
\* start(), the stop_session called by _play_error_sound finishes and
\* start() returns with the session inactive, the mic not running and the
\* connection handle None; on this path the main task never waits for a
\* lock that it holds itself.
C5_StartNeverBlocks ==
    /\ (ssRet = "start_return" /\ pcE = "ss_wait") => ws_lock # "main"
    /\ (ssRet = "start_return" /\ pcE \in {"exit", "done"}) =>
          (~session_active /\ ~mic_running /\ ws = NoneVal)


\* ===================================================================== C6
\* C6: a frame delivered to mic_callback while allow_mic_input is false or
\* the session is inactive is not passed to send_mic_audio; it is discarded:
\* nothing is queued for it and last_activity is not updated.
C6_MicGate ==
    [][(frames' # frames /\ (~allow_mic_input \/ ~session_active)) =>
          /\ sent' = sent
          /\ last_activity' = last_activity
          /\ user_spoke_after_assistant' = user_spoke_after_assistant
          /\ playback_queue' = playback_queue]_vars

\* A frame was delivered while the gate was closed, and none was forwarded.
C6_Witness == frames = 1 /\ dropped = 1 /\ sent = 0


\* ===================================================================== C7
\* C7: with autofollowup "never", once a turn's response.done has been
\* handled the session is Idle: inactive, the connection closed and its
\* handle None, the mic not running; whatever the transcript holds and
\* whatever a follow_up_intent call of the turn declared.
C7_NeverEndsSession ==
    (autofollowup = "never" /\ doneProcessed) =>
        (~session_active /\ ws = NoneVal /\ conn # "open" /\ ~mic_running)

\* A "never" session has handled the response.done of a turn that asked a
\* question and in which follow_up_intent declared expects_follow_up true.
C7_Witness ==
    /\ autofollowup = "never"
    /\ doneProcessed
    /\ saw_follow_up_call = "yes"
    /\ follow_up_expected
    /\ wants_follow_up_heuristic(full_response_text)


\* ===================================================================== C8
\* C8: in a session with policy "auto", once the response.done of a turn
\* with three audio deltas, no tool call and the transcript "Hello!" has been
\* handled, the session is Idle (connection closed, handle None, mic not
\* running), the playback queue is drained and exactly one call of
\* rotate_and_save_response_audio has been made.
C8_IdleAfterResponseDone ==
    (/\ autofollowup = "auto"
     /\ turns = 1 /\ nAudio = 3
     /\ saw_follow_up_call = "no"
     /\ full_response_text = Hello
     /\ doneProcessed)
        => /\ ws = NoneVal /\ conn # "open" /\ ~mic_running
           /\ playback_queue = <<>> /\ unfinished_tasks = 0
           /\ saves = 1


\* ===================================================================== C9
\* C9: in a session with policy "auto" and run mode "normal" whose mic
\* device opens, once the response.done of a turn with audio deltas, no tool
\* call and the transcript "Want to hear a joke?" has been handled and the
\* main task awaits the next message, the session is Listening: active, the
\* connection open and the mic running.
C9_ListeningAfterQuestion ==
    (/\ autofollowup = "auto" /\ run_mode = "normal"
     /\ micFails = 0
     /\ turns = 1 /\ nAudio > 0
     /\ saw_follow_up_call = "no"
     /\ full_response_text = Joke
     /\ doneProcessed /\ pcE = "recv")
        => (session_active /\ ws # NoneVal /\ conn = "open" /\ mic_running)

\* An announcement session, whose mic was not open during the turn, has
\* handled the response.done of the joke question after three audio deltas;
\* _start_mic_after_playback has opened the mic.
C9_Witness ==
    /\ source = "say" /\ autofollowup = "auto" /\ run_mode = "normal"
    /\ nAudio = 3
    /\ saw_follow_up_call = "no"
    /\ full_response_text = Joke
    /\ doneProcessed /\ pcE = "recv"
    /\ wants_follow_up /\ mic_running


\* ==================================================================== C10
\* C10: under policy "auto", when the follow-up decision is taken (in
\* post_response_handling for an active session, or in the kickoff switch of
\* _on_response_done) for a turn whose transcript contains a question mark
\* and in which no follow_up_intent call was received, the decision is
\* true and the mic is about to be reopened.
C10_QuestionMarkExpectsFollowUp ==
    [][(/\ autofollowup = "auto"
        /\ saw_follow_up_call = "no"
        /\ \E i \in 1..Len(full_response_text) : full_response_text[i] = "?"
        /\ \/ pcE = "finally" /\ session_active
           \/ /\ pcE = "rd_sleep"
              /\ kickoff_text # NoneVal /\ ~kickoff_first_turn_done
              /\ turn_had_speech /\ ~kickoff_to_interactive
        /\ pcE' # pcE)
          => (wants_follow_up' /\ pcE' \in {"smap_rd", "smap_prh"})]_vars

\* post_response_handling of a button session has taken the decision for the
\* joke question without a follow_up_intent call, and it is true.
C10_Witness ==
    /\ source = "button" /\ autofollowup = "auto"
    /\ saw_follow_up_call = "no"
    /\ full_response_text = Joke
    /\ pcE = "smap_prh"
    /\ wants_follow_up


C12_MalformedArgsIgnored ==
    [][(/\ Len(dispatched') > Len(dispatched)
        /\ dispatched'[Len(dispatched')].name \in ToolHandlers
        /\ json_loads(dispatched'[Len(dispatched')].raw_args, srvCalls') = "error")
          => /\ ~handlerRaised'
             /\ session_active' /\ conn' = "open" /\ ws' # NoneVal
             /\ pcE' = "recv"]_vars

\* ==================================================================== C13
\* C13: when _start_mic has failed with retries enabled, the attempts of the
\* retry loop are separated by non-decreasing delays that begin 0.5 s, 1 s,
\* 2 s; an attempt that succeeds leaves mic_running true, and the loop makes
\* no attempt after a success, so that a success is always its last attempt
\* (in particular when two attempts fail and the third succeeds).
C13_RetryBackoff ==
    [][/\ \A i \in 1..(Len(micLog') - 1) :
             /\ micLog'[i].delay <= micLog'[i + 1].delay
             /\ ~micLog'[i].ok
       /\ \A i \in DOMAIN micLog' : i <= 3 => micLog'[i].delay = <<1, 2, 4>>[i]
       /\ (Len(micLog') > Len(micLog) /\ micLog'[Len(micLog')].ok)
             => (mic_running' /\ pcR' = "done")
       /\ pcR = "done" => (pcR' = "done" /\ micLog' = micLog)]_vars

\* Two attempts of the retry loop were refused and the third opened the mic.
C13_Witness ==
    /\ Len(micLog) = 3
    /\ ~micLog[1].ok /\ ~micLog[2].ok /\ micLog[3].ok
    /\ mic_running /\ session_active /\ pcR = "done"
    /\ doneProcessed

\* ==================================================================== C14
\* C14: the retry loop makes at most five attempts, after delays of 0.5, 1,
\* 2, 2 and 2 s, each with a MicManager created for that attempt; when all
\* five were refused and the session is still active the loop ends, and its
\* end leaves the session active, the connection as it was and mic_running
\* false.  A loop that was started ends, at the latest when start() has
\* returned and the event loop cancels its tasks.
C14_RetryGivesUp ==
    /\ [][/\ Len(micLog') <= 5
          /\ \A i \in DOMAIN micLog' :
                /\ micLog'[i].delay = <<1, 2, 4, 4, 4>>[i]
                /\ micLog'[i].mic \notin ({1} \cup {micLog'[j].mic : j \in 1..(i - 1)})
          /\ (/\ pcR = "check" /\ pcR' = "done"
              /\ Len(micLog) = 5 /\ \A i \in 1..5 : ~micLog[i].ok
              /\ session_active)
                => (/\ UNCHANGED <<session_active, ws, conn>>
                    /\ ~mic_running')]_vars
    /\ (pcR \in {"check", "sleep"}) ~> (pcR = "done" \/ pcE = "done")

\* The loop has given up after five refusals in a session that is still
\* active and connected.
C14_Witness ==
    /\ pcR = "done" /\ Len(micLog) = 5
    /\ \A i \in 1..5 : ~micLog[i].ok
    /\ session_active /\ conn = "open" /\ ws # NoneVal /\ ~mic_running
    /\ pcE = "recv"

\* ==================================================================== C15
\* C15: from the first transcript delta or audio delta of a turn that has
\* been handled until response.done has confirmed the queue drained,
\* allow_mic_input is false; once response.done has been handled it is true.
C15_MicGateDuringTurn ==
    /\ (turn_had_speech /\ (turnOpen \/ pcE \in {"rd_join", "rd_sleep"}))
          => ~allow_mic_input
    /\ (doneProcessed /\ pcE = "recv") => allow_mic_input

\* ==================================================================== C16
\* The texts of a sequence of deltas, joined in order.
RECURSIVE Flatten(_)
Flatten(ds) == IF ds = <<>> THEN <<>> ELSE Head(ds).delta \o Flatten(Tail(ds))

\* C16: within a turn the first transcript delta selects the active stream;
\* the handling of a later delta of the other stream leaves the transcript
\* accumulator, the selection and every session flag unchanged; and after
\* each delta the accumulator is what it was at response.created followed
\* by the deltas of the selected stream in the order of their receipt.
C16_OneStreamPerTurn ==
    [][/\ Len(tdeltas') > Len(tdeltas) =>
             /\ active_transcript_stream' = tdeltas'[1].stream
             /\ full_response_text' =
                   textAtCreated' \o
                     Flatten(SelectSeq(tdeltas',
                                       LAMBDA d : d.stream = tdeltas'[1].stream))
       /\ (/\ Len(tdeltas') > Len(tdeltas) /\ tdeltas # <<>>
           /\ tdeltas'[Len(tdeltas')].stream # tdeltas[1].stream)
             => UNCHANGED <<sessVars, active_transcript_stream>>]_vars

\* A turn whose first delta was of the audio transcript, whose second, of the
\* plain text, was dropped and whose third was appended.
C16_Witness ==
    /\ Len(tdeltas) = 3
    /\ tdeltas[1] = [stream |-> "audio", delta |-> Hello]
    /\ tdeltas[2] = [stream |-> "text", delta |-> Que]
    /\ tdeltas[3] = [stream |-> "audio", delta |-> Joke]
    /\ full_response_text = Hello \o Joke
    /\ active_transcript_stream = "audio"

\* ==================================================================== C17
\* C17: the argument text handed to a handler at a call's done event is the
\* text of exactly that call: the text the done event carries, or else the
\* delta texts of that call id in the order of their receipt, when every
\* call of the turn has sent deltas, in whatever order they were received.
C17_ArgsPerCall ==
    \A k \in DOMAIN dispatched :
        (\A c \in DOMAIN srvCalls : srvCalls[c].sent > 0)
          => dispatched[k].raw_args \in {WholeArgs(dispatched[k].call),
                                         DeltaArgs(srvCalls, dispatched[k].call)}

\* ==================================================================== C18
\* C18: immediately after a response.created event has been handled the
\* transcript accumulator is empty, follow-up intent is false, the tool-call
\* argument buffers are empty and no transcript stream is selected.
C18_TurnStateReset ==
    [][turns' = turns + 1
         => /\ full_response_text' = <<>>
            /\ ~follow_up_expected'
            /\ \A n \in DOMAIN tool_args_buffer' : tool_args_buffer'[n] = <<>>
            /\ active_transcript_stream' = NoneVal]_vars

\* ==================================================================== C19
\* C19: after a write failure has ended the playback worker an enqueue does
\* not accept a chunk, and the wait of the response.done handler for the
\* queue can still end: while it is pending the worker is alive and every
\* unfinished task is a chunk in the queue or in the worker's hands.
C19_WriteFailureDetected ==
    [][/\ (~worker_alive /\ pcE = "recv")
             => Len(playback_queue') <= Len(playback_queue)
       /\ pcE' = "rd_join"
             => (/\ worker_alive'
                 /\ unfinished_tasks' = Len(playback_queue') + Len(item'))]_vars

\* ==================================================================== C20
\* C20: a send of mic audio never runs while another task is inside a send
\* on, or a close of, the connection: whenever an input_audio_buffer.append
\* was sent, ws_lock was not held by a task in the middle of its own send or
\* close.
C20_AppendsUnderLock == \A a \in appendLog : a.lock = "free"


C22_WatchdogOutsideTurns ==
    [][(pcM = "none" /\ pcM' # "none") => ~turnOpen]_vars


\* ==================================================================== C23
\* C23: no failure ends the session silently: when the file of the error
\* clip exists and an exception raised by a message handler has ended the
\* session, the error clip has been enqueued.
C23_FailureClipEnqueued ==
    (env.clipFiles = {TRUE} /\ handlerRaised /\ ~session_active)
        => ErrClip \in enqueued


\* ==================================================================== C24
\* C24: in run mode "dory" the handling of the first response.done ends the
\* session, whatever the follow-up policy, the follow-up intent and the
\* transcript: when that handling is complete the session is inactive, the
\* mic is stopped, the connection is closed and ws is None; and the session
\* handles no event after it.
C24_DoryEndsAfterFirstDone ==
    [][(run_mode = "dory")
          => /\ (~doneProcessed /\ doneProcessed')
                   => /\ ~session_active' /\ ~mic_running'
                      /\ ws' = NoneVal /\ conn' # "open"
             /\ doneProcessed
                   => /\ ~session_active' /\ ws' = NoneVal
                      /\ UNCHANGED <<turnOpen, tdeltas, nAudio, dispatched>>]_vars


\* ==================================================================== C25
\* C25: after a request_stop made while the session waits for the next
\* message of an open connection, the session reaches Closed, with the mic
\* stopped and the connection closed, although no further message arrives.
C25_StopRequestCloses ==
    (stop_requested /\ pcE = "recv" /\ conn = "open")
        ~> (~mic_running /\ conn # "open" /\ ws = NoneVal)


\* ==================================================================== C26
\* C26: MicManager.stop() is idempotent and safe on an object that was not
\* started: every stop() leaves stream None, whether closing the device
\* raises or not, and a stop() that follows a stop(), or is the first call
\* on the object, changes nothing.
C26_StopIdempotent ==
    \A i \in DOMAIN micOps :
        micOps[i].op = "stop"
            => /\ micOps[i].after = NoneVal
               /\ (i = 1 \/ micOps[i - 1].op = "stop")
                     => micOps[i].after = micOps[i].before

\* C26 witness: a stream that was assigned but failed to start has been
\* stopped twice in a row.
C26_Witness ==
    \E i \in DOMAIN micOps :
        /\ i > 2
        /\ micOps[i].op = "stop" /\ micOps[i - 1].op = "stop"
        /\ micOps[i - 2].after = "unstarted"


\* ==================================================================== C27
\* C27: playback_done_event is clear whenever a chunk of a response is in
\* the playback queue or is being written by the worker.
C27_EventClearWhilePlaying ==
    (\/ \E i \in DOMAIN playback_queue : playback_queue[i] > 0
     \/ pcW = "write" /\ \E i \in DOMAIN item : item[i] > 0)
        => ~playback_done_event


\* ==================================================================== C28
\* C28: at most one playback worker thread is alive, whatever threads call
\* ensure_playback_worker_started at the same time.
C28_OneWorker == Cardinality(alive_workers) <= 1


\* ==================================================================== C29
\* C29: the tool declaration overrides the heuristic: under policy "auto",
\* when the follow-up decision is taken for a turn in which follow_up_intent
\* was called with expects_follow_up false, the decision is false although
\* the transcript contains a question mark; and under the policies "always"
\* and "never" the decision does not depend on the transcript.
C29_ToolOverridesHeuristic ==
    [][(/\ \/ pcE = "finally" /\ session_active /\ saw_follow_up_call # "unset"
           \/ /\ pcE = "rd_sleep" /\ autofollowup = "auto"
              /\ kickoff_text # NoneVal /\ ~kickoff_first_turn_done
              /\ turn_had_speech /\ ~kickoff_to_interactive
        /\ pcE' # pcE)
          => /\ (/\ autofollowup = "auto"
                 /\ saw_follow_up_call = "yes" /\ ~follow_up_expected)
                   => ~wants_follow_up'
             /\ autofollowup = "always" => wants_follow_up'
             /\ autofollowup = "never" => ~wants_follow_up']_vars


C31_DelayBeforeEveryAttempt ==
    [][(pcE \in {"smap_rd", "smap_prh"} /\ attempt' # attempt)
          => wait_time(attempt) > 0]_vars


\* ==================================================================== C32
\* C32 as stated: with the session active and the mic running, an iteration
\* of the watchdog that finds the idle time (since the later of the last
\* activity and the last audio played) over the threshold minus the offset
\* ends the session.
C32_EndsAtThresholdMinusOffset ==
    (/\ idle_check.did # "none"
     /\ idle_check.active /\ idle_check.running
     /\ idle_check.now - idle_check.last_activity
           > TicksPerSecond * (MIC_TIMEOUT_SECONDS - timeout_offset)
     /\ idle_check.now - idle_check.last_played_time
           > TicksPerSecond * (MIC_TIMEOUT_SECONDS - timeout_offset))
        => idle_check.did = "stop_session"

\* C32, amended: the watchdog does nothing but sleep while the mic is not
\* running; while it runs in an active session, the watchdog ends the
\* session exactly when the idle time, measured from the later of the last
\* activity and the last audio played, exceeds the threshold plus the
\* offset.
C32_IdleTimeout ==
    idle_check.did # "none" =>
        /\ (idle_check.active /\ ~idle_check.running)
              => idle_check.did = "sleep_0.2"
        /\ idle_check.did = "stop_session" <=>
              /\ idle_check.active /\ idle_check.running
              /\ idle_check.now - idle_check.last_activity
                    > TicksPerSecond * (MIC_TIMEOUT_SECONDS + timeout_offset)
              /\ idle_check.now - idle_check.last_played_time
                    > TicksPerSecond * (MIC_TIMEOUT_SECONDS + timeout_offset)

\* C32 witness: the watchdog ends the session at the first reading of the
\* clock that is late enough, half a second past threshold plus offset
\* after the last audio played, the mic's last activity being older.
C32_Witness ==
    /\ idle_check.did = "stop_session"
    /\ idle_check.last_activity < idle_check.last_played_time
    /\ idle_check.now - idle_check.last_played_time
          = TicksPerSecond * (MIC_TIMEOUT_SECONDS + timeout_offset) + 1


\* ==================================================================== C33
\* C33: the count of unfinished tasks of the playback queue is the number
\* of chunks queued plus the chunk the worker holds, in every state.
C33_UnfinishedMatchesQueue ==
    unfinished_tasks = Len(playback_queue) + Len(item)


\* ==================================================================== C34
\* C34: when start() has returned, the mic is not running.
C34_MicClosedAtReturn == pcE = "done" => ~mic_running


\* ==================================================================== C35
\* C35: _retry_mic_loop makes no attempt to open the mic in a session that
\* is no longer active.
C35_NoRetryWhenInactive ==
    [][Len(micLog') > Len(micLog) => session_active]_vars


\* ==================================================================== C36
\* C36: in a button session, once the wake-up clip has been played and its
\* thread has finished, playback_done_event is set as long as no assistant
\* audio has been enqueued, so that check 2 of mic_callback lets the frames
\* through.
C36_EventSetAfterWakeUp ==
    (/\ source = "button"
     /\ pcU = "done" /\ WakeClip \in sink
     /\ enqueued = {WakeClip})
        => playback_done_event


\* ==================================================================== C37
\* C37: at most one session thread started by the button is alive; a press
\* that finds is_active set starts no thread; and a thread is started only
\* with _session_start_lock held and every earlier thread ended.
C37_OneSessionThread ==
    /\ [][Cardinality(Alive(session_threads')) <= 1]_vars
    /\ [][(pcP = "idle" /\ is_active /\ pcP' # "idle") => pcP' = "interrupt"]_vars
    /\ [][pcP = "interrupt" => Len(session_threads') = Len(session_threads)]_vars
    /\ [][Len(session_threads') > Len(session_threads)
            => (session_start_lock /\ Alive(session_threads) = {})]_vars

\* C37 witness: the button has started a second session thread after the
\* first has ended, and a third press has found the lock held and has
\* been ignored.
C37_Witness ==
    /\ Len(session_threads) = 2
    /\ session_threads[1] = "finished" /\ session_threads[2] = "running"
    /\ session_start_lock /\ ~is_active /\ pcP = "idle"


\* ==================================================================== C38
\* C38: when a response.done has been processed, mic input is allowed
\* again, under TEXT_ONLY_MODE as in audio mode.
C38_MicAllowedAfterTurn ==
    [][(~doneProcessed /\ doneProcessed') => allow_mic_input']_vars


\* ==================================================================== C39
\* C39: a kickoff session (a pre-seeded message, the mic start deferred)
\* under policy auto whose first turn has completed with no follow-up
\* expected eventually closes its connection and start() returns, whether
\* or not the service sends another message.
C39_KickoffSessionEnds ==
    (/\ kickoff_text # NoneVal
     /\ ~kickoff_to_interactive
     /\ autofollowup = "auto"
     /\ kickoff_first_turn_done
     /\ doneProcessed
     /\ ~wants_follow_up
     /\ pcE = "recv")
       ~> (pcE = "done" /\ conn # "open")


\* ==================================================================== C40
\* C40: play_random_wake_up_clip sets playback_done_event only after the
\* chunk of the clip it enqueued has been written or flushed, also when
\* other chunks were pending in the queue before it or are enqueued
\* concurrently by the session.
C40_EventAfterClipPlayed ==
    [][(pcU = "wait" /\ pcU' = "done")
          => \/ WakeClip \in sink'
             \/ WakeClip \notin (Range(playback_queue') \cup Range(item'))]_vars

=========================================================================
